---- MODULE Spec2Model ----
(***************************************************************************)
(* Model of the statistical comparison engine of weblab                    *)
(* (PerformanceComparisonEngine, src/compare.js), of its run validator     *)
(* (ValidationSystem, src/validation.js) and of the commands of the        *)
(* command line that use them (PerformanceCLI).                            *)
(*                                                                         *)
(* JavaScript numbers are modelled as IEEE values: a finite value is an    *)
(* exact rational n/d in lowest terms, and NaN, +Infinity and -Infinity    *)
(* are separate values with the IEEE rules for division by zero and for    *)
(* comparisons with NaN.  The t statistic is a quotient by a square root,  *)
(* so it is carried as its class, its sign and its exact square; the code  *)
(* only compares |t| with the constants 1, 2, 3 and 4.  The degrees of     *)
(* freedom are carried as their IEEE class and sign (NaN, 0, positive,     *)
(* ...), which is all the code looks at (df <= 0).                         *)
(***************************************************************************)
EXTENDS Integers, Sequences, FiniteSets, TLC

VARIABLES
  pc,          \* "ready": inputs chosen, nothing computed yet; "done": result holds
  op,          \* which entry point of the engine the inputs are for
  baseline,    \* first argument of the call
  comparison,  \* second argument of the call
  result,      \* value returned by the call (None before the call)
  clock,       \* the wall clock, in ticks: what new Date() reads
  history      \* values returned by the earlier calls of the run, oldest first

vars == <<pc, op, baseline, comparison, result, clock, history>>

None == [k |-> "none"]

(***************************************************************************)
(* IEEE numbers                                                            *)
(***************************************************************************)
Abs(x) == IF x < 0 THEN -x ELSE x

Sgn(x) == IF x < 0 THEN -1 ELSE IF x > 0 THEN 1 ELSE 0

RECURSIVE GCD(_, _)
GCD(a, b) == IF b = 0 THEN a ELSE GCD(b, a % b)

\* the finite number n/d (d # 0), in lowest terms with a positive denominator
Fin(n, d) ==
  LET g == GCD(Abs(n), Abs(d))
      s == IF d < 0 THEN -1 ELSE 1
  IN  [k |-> "fin", n |-> s * (n \div g), d |-> s * (d \div g)]

Num(n) == [k |-> "fin", n |-> n, d |-> 1]

NaN == [k |-> "nan", n |-> 0, d |-> 1]

PosInf == [k |-> "inf", n |-> 1, d |-> 1]

NegInf == [k |-> "inf", n |-> -1, d |-> 1]

IsFinite(v) == v.k = "fin"

IsNaN(v) == v.k = "nan"

\* sign of an IEEE value that is not NaN
SignOf(v) == Sgn(v.n)

\* a < b, false as soon as one side is NaN
FLt(a, b) ==
  IF IsNaN(a) \/ IsNaN(b) THEN FALSE
  ELSE IF a.k = "inf" /\ b.k = "inf" THEN a.n < b.n
  ELSE IF a.k = "inf" THEN a.n < 0
  ELSE IF b.k = "inf" THEN b.n > 0
  ELSE a.n * b.d < b.n * a.d

FGt(a, b) == FLt(b, a)

FLe(a, b) == ~IsNaN(a) /\ ~IsNaN(b) /\ ~FLt(b, a)

FNeg(a) == IF IsNaN(a) THEN NaN ELSE [a EXCEPT !.n = -a.n]

FAbs(a) == IF IsNaN(a) THEN NaN ELSE [a EXCEPT !.n = Abs(a.n)]

FAdd(a, b) ==
  IF IsNaN(a) \/ IsNaN(b) THEN NaN
  ELSE IF a.k = "inf" /\ b.k = "inf" THEN (IF a.n = b.n THEN a ELSE NaN)
  ELSE IF a.k = "inf" THEN a
  ELSE IF b.k = "inf" THEN b
  ELSE Fin(a.n * b.d + b.n * a.d, a.d * b.d)

FSub(a, b) == FAdd(a, FNeg(b))

FMul(a, b) ==
  IF IsNaN(a) \/ IsNaN(b) THEN NaN
  ELSE IF a.k = "inf" \/ b.k = "inf"
       THEN (IF SignOf(a) * SignOf(b) = 0 THEN NaN
             ELSE IF SignOf(a) * SignOf(b) > 0 THEN PosInf ELSE NegInf)
  ELSE Fin(a.n * b.n, a.d * b.d)

\* a / b; a zero divisor is +0, as every zero divisor of the engine is
FDiv(a, b) ==
  IF IsNaN(a) \/ IsNaN(b) THEN NaN
  ELSE IF a.k = "inf" /\ b.k = "inf" THEN NaN
  ELSE IF a.k = "inf"
       THEN (IF SignOf(a) * (IF SignOf(b) < 0 THEN -1 ELSE 1) > 0 THEN PosInf ELSE NegInf)
  ELSE IF b.k = "inf" THEN Num(0)
  ELSE IF b.n = 0
       THEN (IF a.n = 0 THEN NaN ELSE IF a.n > 0 THEN PosInf ELSE NegInf)
  ELSE Fin(a.n * b.d, a.d * b.n)

RECURSIVE Pow10(_)
Pow10(digits) == IF digits = 0 THEN 1 ELSE 10 * Pow10(digits - 1)

\* parseFloat(x.toFixed(digits)): the nearest multiple of 10^-digits, a tie
\* going away from zero; NaN and the infinities print and parse as themselves
ToFixed(v, digits) ==
  IF ~IsFinite(v) THEN v
  ELSE LET p == Pow10(digits)
           q == (2 * Abs(v.n) * p + v.d) \div (2 * v.d)
       IN  Fin(Sgn(v.n) * q, p)

\* the class and sign of a value, its magnitude dropped
SignClass(v) == IF IsFinite(v) THEN Num(SignOf(v)) ELSE v

(***************************************************************************)
(* Statistics records (calculateStatistics of the test suite)              *)
(***************************************************************************)
\* cv of a record with the given mean and stddev
CoefficientOfVariation(mean, stddev) ==
  ToFixed(IF FGt(mean, Num(0)) THEN FMul(FDiv(stddev, mean), Num(100)) ELSE Num(0), 2)

\* the record calculateStatistics returns, reduced to the fields the engine reads
StatsRecord(mean, stddev, count) ==
  [mean |-> mean, stddev |-> stddev, count |-> count,
   cv |-> CoefficientOfVariation(mean, stddev)]

(***************************************************************************)
(* PerformanceComparisonEngine: thresholds                                 *)
(***************************************************************************)
confidenceLevel == Fin(95, 100)

significanceThreshold == Fin(5, 100)

regressionThreshold == Fin(5, 100)

(***************************************************************************)
(* calculatePValue and welchTTest                                          *)
(***************************************************************************)
\* the t statistic d / Math.sqrt(s): its class, its sign and its square
TQuotient(d, s) ==
  IF IsNaN(s) \/ FLt(s, Num(0)) THEN [k |-> "nan", sign |-> 0, sq |-> Num(0)]
  ELSE IF s.k = "inf" THEN [k |-> "fin", sign |-> 0, sq |-> Num(0)]
  ELSE IF s.n = 0
       THEN (IF d.n = 0 THEN [k |-> "nan", sign |-> 0, sq |-> Num(0)]
             ELSE [k |-> "inf", sign |-> SignOf(d), sq |-> Num(0)])
  ELSE [k |-> "fin", sign |-> SignOf(d), sq |-> FDiv(FMul(d, d), s)]

\* Math.abs of a t statistic
TAbs(t) == [t EXCEPT !.sign = Abs(t.sign)]

\* tStat <= c in place of tStat < c
TLess_Inclusive(tStat, c) == tStat.k = "fin" /\ FLe(tStat.sq, Num(c * c))

\* tStat < c for a non-negative tStat and a constant c > 0
TLess(tStat, c) == tStat.k = "fin" /\ FLt(tStat.sq, Num(c * c))

\* df <= 0
DfNotPositive(df) == FLe(df, Num(0))

\* the rows of the table for |t| in [1,2) and [2,3) exchanged
calculatePValue_RowsSwapped(tStat, df) ==
  IF DfNotPositive(df) THEN Num(1)
  ELSE IF TLess(tStat, 1) THEN Fin(5, 10)
  ELSE IF TLess(tStat, 2) THEN Fin(1, 100)
  ELSE IF TLess(tStat, 3) THEN Fin(1, 10)
  ELSE IF TLess(tStat, 4) THEN Fin(1, 1000)
  ELSE Fin(1, 10000)

calculatePValue(tStat, df) ==
  IF DfNotPositive(df) THEN Num(1)
  ELSE IF TLess(tStat, 1) THEN Fin(5, 10)
  ELSE IF TLess(tStat, 2) THEN Fin(1, 10)
  ELSE IF TLess(tStat, 3) THEN Fin(1, 100)
  ELSE IF TLess(tStat, 4) THEN Fin(1, 1000)
  ELSE Fin(1, 10000)

\* the Welch-Satterthwaite quotient, by class and sign
DegreesOfFreedom(a1, a2, n1, n2) ==
  LET s1 == SignClass(a1)
      s2 == SignClass(a2)
      sum == SignClass(FAdd(s1, s2))
      numerator == FMul(sum, sum)
      denominator == SignClass(FAdd(FDiv(FMul(s1, s1), Num(n1 - 1)),
                                    FDiv(FMul(s2, s2), Num(n2 - 1))))
  IN  SignClass(FDiv(numerator, denominator))

welchTTest(b, c) ==
  LET n1 == b.count
      n2 == c.count
      mean1 == b.mean
      mean2 == c.mean
      var1 == FMul(b.stddev, b.stddev)
      var2 == FMul(c.stddev, c.stddev)
      a1 == FDiv(var1, Num(n1))
      a2 == FDiv(var2, Num(n2))
      tStatistic == TQuotient(FSub(mean1, mean2), FAdd(a1, a2))
      df == DegreesOfFreedom(a1, a2, n1, n2)
      pValue == calculatePValue(TAbs(tStatistic), df)
  IN  [tStatistic |-> tStatistic,
       degreesOfFreedom |-> df,
       pValue |-> ToFixed(pValue, 4)]

(***************************************************************************)
(* interpretStatisticalResult and performStatisticalTest                   *)
(***************************************************************************)
\* the comparison of isRegression turned around
IsRegression_Inverted(change) ==
  FLt(change.percent, FMul(regressionThreshold, Num(100)))

\* change.percent > this.regressionThreshold * 100
IsRegression(change) ==
  FGt(change.percent, FMul(regressionThreshold, Num(100)))

\* change.percent < -this.regressionThreshold * 100
IsImprovement(change) ==
  FLt(change.percent, FMul(FNeg(regressionThreshold), Num(100)))

interpretStatisticalResult(change, significance) ==
  LET absPercent == FAbs(change.percent)
      isRegression == IsRegression(change)
      isImprovement == IsImprovement(change)
  IN  [significance |-> IF significance.isSignificant
                        THEN "statistically significant"
                        ELSE "not statistically significant",
       magnitude |-> IF FLt(absPercent, Num(5)) THEN "small"
                     ELSE IF FLt(absPercent, Num(15)) THEN "medium"
                     ELSE "large",
       summary |-> IF significance.isSignificant
                   THEN (IF isRegression THEN "Significant performance regression detected"
                         ELSE IF isImprovement THEN "Significant performance improvement detected"
                         ELSE "Statistically significant change but within acceptable range")
                   ELSE "No significant performance change detected",
       recommendation |-> IF significance.isSignificant
                          THEN (IF isRegression THEN "Investigate and address performance regression"
                                ELSE IF isImprovement THEN "Performance improvement confirmed"
                                ELSE "Monitor for consistency")
                          ELSE "Performance appears stable"]

\* the guard baseline.mean !== 0 in place of baseline.mean > 0
MeanChangePercent_NonZeroGuard(b, meanChange) ==
  IF b.mean # Num(0) THEN FMul(FDiv(meanChange, b.mean), Num(100)) ELSE Num(0)

\* (meanChange / baseline.mean) * 100 when baseline.mean > 0, else 0
MeanChangePercent(b, meanChange) ==
  IF FGt(b.mean, Num(0)) THEN FMul(FDiv(meanChange, b.mean), Num(100)) ELSE Num(0)

performStatisticalTest(b, c) ==
  LET meanChange == FSub(c.mean, b.mean)
      meanChangePercent == MeanChangePercent(b, meanChange)
      change == [absolute |-> ToFixed(meanChange, 2),
                 percent |-> ToFixed(meanChangePercent, 2),
                 direction |-> IF FGt(meanChange, Num(0)) THEN "increase"
                               ELSE IF FLt(meanChange, Num(0)) THEN "decrease"
                               ELSE "no-change"]
      tTest == welchTTest(b, c)
      significance == [tStatistic |-> tTest.tStatistic,
                       pValue |-> tTest.pValue,
                       isSignificant |-> FLt(tTest.pValue, significanceThreshold),
                       confidenceLevel |-> confidenceLevel]
  IN  [baseline |-> [mean |-> b.mean, stddev |-> b.stddev, count |-> b.count, cv |-> b.cv],
       comparison |-> [mean |-> c.mean, stddev |-> c.stddev, count |-> c.count, cv |-> c.cv],
       change |-> change,
       significance |-> significance,
       interpretation |-> interpretStatisticalResult(change, significance)]

(***************************************************************************)
(* JavaScript objects                                                      *)
(*                                                                         *)
(* An object is a TLA+ record; a property the object does not have reads   *)
(* as undefined.  Booleans and strings are strings ("true", "false",       *)
(* "undefined", "null", ...), numbers are IEEE values, and an undefined    *)
(* number is Undef, which arithmetic turns into NaN.                       *)
(***************************************************************************)
Undef == [k |-> "undef", n |-> 0, d |-> 1]

\* ToNumber of a numeric property
ToNumber(v) == IF v.k = "undef" THEN NaN ELSE v

Has(obj, field) == field \in DOMAIN obj

\* obj.field for a string or boolean property
Str(obj, field) == IF Has(obj, field) THEN obj[field] ELSE "undefined"

\* obj.field for a numeric property
Number(obj, field) == IF Has(obj, field) THEN obj[field] ELSE Undef

Truthy(v) == v \notin {"false", "undefined", "null", ""}

Bool(b) == IF b THEN "true" ELSE "false"

(***************************************************************************)
(* compareInfrastructure                                                   *)
(***************************************************************************)
assessCdnImpact(b, c) ==
  IF ~Truthy(Str(b, "detected")) /\ Truthy(Str(c, "detected")) THEN "positive"
  ELSE IF Truthy(Str(b, "detected")) /\ ~Truthy(Str(c, "detected")) THEN "negative"
  ELSE IF Str(b, "provider") # Str(c, "provider") THEN "change"
  ELSE "neutral"

compareCdn(b, c) ==
  IF ~Has(b, "cdn") \/ ~Has(c, "cdn") THEN [error |-> "Missing CDN data"]
  ELSE [providerChange |-> Bool(Str(b.cdn, "provider") # Str(c.cdn, "provider")),
        impact |-> assessCdnImpact(b.cdn, c.cdn)]

assessCompressionImpact(improvement) ==
  IF FGt(improvement, Num(10)) THEN "significant-positive"
  ELSE IF FGt(improvement, Num(5)) THEN "positive"
  ELSE IF FLt(improvement, Num(-10)) THEN "significant-negative"
  ELSE IF FLt(improvement, Num(-5)) THEN "negative"
  ELSE "neutral"

compareCompression(b, c) ==
  IF ~Has(b, "compression") \/ ~Has(c, "compression") THEN [error |-> "Missing compression data"]
  ELSE LET br == ToNumber(Number(b.compression, "ratio"))
           cr == ToNumber(Number(c.compression, "ratio"))
           improvement == IF FGt(br, Num(0)) /\ FGt(cr, Num(0))
                          THEN FMul(FDiv(FSub(br, cr), br), Num(100))
                          ELSE Num(0)
       IN  [algorithmChange |-> Bool(Str(b.compression, "algorithm") # Str(c.compression, "algorithm")),
            compressionImprovement |-> improvement,
            impact |-> assessCompressionImpact(improvement)]

assessProtocolImpact(b, c) ==
  IF ~Truthy(Str(b, "http2Support")) /\ Truthy(Str(c, "http2Support")) THEN "positive"
  ELSE IF Truthy(Str(b, "http2Support")) /\ ~Truthy(Str(c, "http2Support")) THEN "negative"
  ELSE IF ~Truthy(Str(b, "http3Support")) /\ Truthy(Str(c, "http3Support")) THEN "positive"
  ELSE "neutral"

compareProtocols(b, c) ==
  IF ~Has(b, "protocols") \/ ~Has(c, "protocols") THEN [error |-> "Missing protocol data"]
  ELSE [http2Change |-> Bool(Str(b.protocols, "http2Support") # Str(c.protocols, "http2Support")),
        http3Change |-> Bool(Str(b.protocols, "http3Support") # Str(c.protocols, "http3Support")),
        impact |-> assessProtocolImpact(b.protocols, c.protocols)]

\* Object.keys(undefined) throws a TypeError
SecurityHeadersThrow(b, c) == ~Has(b, "headers") \/ ~Has(c, "headers")

\* the headers whose values differ, with their status
compareSecurityHeaders(bh, ch) ==
  LET allHeaders == DOMAIN bh \cup DOMAIN ch
      changed == {h \in allHeaders : Str(bh, h) # Str(ch, h)}
  IN  [h \in changed |->
         IF ~Truthy(Str(bh, h)) /\ Truthy(Str(ch, h)) THEN "added"
         ELSE IF Truthy(Str(bh, h)) /\ ~Truthy(Str(ch, h)) THEN "removed"
         ELSE "changed"]

\* compareSecurity when it returns (SecurityThrows tells when it does not)
compareSecurity(b, c) ==
  IF ~Has(b, "security") \/ ~Has(c, "security") THEN [error |-> "Missing security data"]
  ELSE LET scoreChange == FSub(ToNumber(Number(c.security, "score")),
                               ToNumber(Number(b.security, "score")))
       IN  [scoreImprovement |-> scoreChange,
            headerChanges |-> compareSecurityHeaders(b.security.headers, c.security.headers),
            impact |-> IF FGt(scoreChange, Num(10)) THEN "positive"
                       ELSE IF FLt(scoreChange, Num(-10)) THEN "negative"
                       ELSE "neutral"]

SecurityThrows(b, c) ==
  Has(b, "security") /\ Has(c, "security") /\ SecurityHeadersThrow(b.security, c.security)

compareCaching(b, c) ==
  IF ~Has(b, "caching") \/ ~Has(c, "caching") THEN [error |-> "Missing caching data"]
  ELSE LET effectivenessChange == FSub(ToNumber(Number(c.caching, "effectiveness")),
                                       ToNumber(Number(b.caching, "effectiveness")))
       IN  [strategyChange |-> Bool(Str(b.caching, "strategy") # Str(c.caching, "strategy")),
            effectivenessChange |-> effectivenessChange,
            impact |-> IF FGt(effectivenessChange, Num(10)) THEN "positive"
                       ELSE IF FLt(effectivenessChange, Num(-10)) THEN "negative"
                       ELSE "neutral"]

\* the categories, in the order compareInfrastructure builds them
InfraCategories == <<"cdn", "compression", "protocols", "security", "caching">>

compareInfrastructure(b, c) ==
  [cdn |-> compareCdn(b, c),
   compression |-> compareCompression(b, c),
   protocols |-> compareProtocols(b, c),
   security |-> compareSecurity(b, c),
   caching |-> compareCaching(b, c)]

(***************************************************************************)
(* compareScenarios, compareScenario, compareStatistics                    *)
(***************************************************************************)
\* the scenario and metric names, in the key order of the result sets
ScenarioNames == <<"cold-start", "warm-start">>

MetricNames == <<"timing.total", "timing.ttfb", "size.transfer">>

Range(seq) == {seq[i] : i \in DOMAIN seq}

\* the metrics of both statistics objects, each tested against the other side
\* typeof x[key] === 'object' && x[key]?.mean !== undefined
HasMean(x, key) == "k" \notin DOMAIN x[key] /\ "mean" \in DOMAIN x[key]

compareStatistics(bs, cs) ==
  [m \in {key \in DOMAIN bs \cap DOMAIN cs : HasMean(bs, key) /\ HasMean(cs, key)} |->
     performStatisticalTest(bs[m], cs[m])]

EmptyObject == [x \in {} |-> x]

compareScenario(b, c) ==
  [statistical |-> IF Has(b, "statistics") /\ Has(c, "statistics")
                   THEN compareStatistics(b.statistics, c.statistics)
                   ELSE EmptyObject]

compareScenarios(b, c) ==
  [name \in DOMAIN b \cap DOMAIN c |-> compareScenario(b[name], c[name])]

(***************************************************************************)
(* generateSummary and generateRecommendations                             *)
(***************************************************************************)
\* an entry of a summary list: "<category>: <impact>" for infrastructure,
\* "<scenario>.<metric>: <percent>%" for a scenario metric
InfraEntry(category, impact) ==
  [category |-> category, impact |-> impact, scenario |-> "", metric |-> "", percent |-> Num(0)]

MetricEntry(scenario, metric, percent) ==
  [category |-> "", impact |-> "", scenario |-> scenario, metric |-> metric, percent |-> percent]

\* the (scenario, metric) pairs of analysis.scenarios, in iteration order
MetricSlots(scenarios) ==
  LET all == [i \in 1..(Len(ScenarioNames) * Len(MetricNames)) |->
                <<ScenarioNames[((i - 1) \div Len(MetricNames)) + 1],
                  MetricNames[((i - 1) % Len(MetricNames)) + 1]>>]
  IN  SelectSeq(all, LAMBDA p : p[1] \in DOMAIN scenarios
                                /\ p[2] \in DOMAIN scenarios[p[1]].statistical)

Impact(infra, category) == Str(infra[category], "impact")

\* a metric result counts when its significance block says isSignificant
CountsAsChange(r) == r.significance.isSignificant

\* the regression test moved out of the isSignificant branch
IsRegressionEntry_IgnoringSignificance(r) ==
  FGt(FAbs(r.change.percent), Num(5)) /\ FGt(r.change.percent, Num(0))

\* the result is pushed to summary.regressions
IsRegressionEntry(r) ==
  CountsAsChange(r) /\ FGt(FAbs(r.change.percent), Num(5)) /\ FGt(r.change.percent, Num(0))

\* mutant: every significant decrease is listed as an improvement
IsImprovementEntry_AnyDecrease(r) ==
  CountsAsChange(r) /\ FLt(r.change.percent, Num(0))

\* the result is pushed to summary.improvements
IsImprovementEntry(r) ==
  CountsAsChange(r) /\ FGt(FAbs(r.change.percent), Num(5)) /\ ~FGt(r.change.percent, Num(0))

overallImpactOf(regressions, improvements) ==
  IF Len(regressions) > Len(improvements) THEN "negative"
  ELSE IF Len(improvements) > Len(regressions) THEN "positive"
  ELSE "neutral"

\* 'unstable' from 5 significant changes on
stabilityOf_Inclusive(significantChanges) ==
  IF Len(significantChanges) >= 5 THEN "unstable"
  ELSE IF Len(significantChanges) > 2 THEN "changing"
  ELSE "stable"

stabilityOf(significantChanges) ==
  IF Len(significantChanges) > 5 THEN "unstable"
  ELSE IF Len(significantChanges) > 2 THEN "changing"
  ELSE "stable"

generateSummary(analysis) ==
  LET infraCats == IF Has(analysis, "infrastructure") THEN InfraCategories ELSE <<>>
      infra == analysis.infrastructure
      posCats == SelectSeq(infraCats, LAMBDA cat :
                   Impact(infra, cat) \in {"positive", "significant-positive"})
      negCats == SelectSeq(infraCats, LAMBDA cat :
                   Impact(infra, cat) \in {"negative", "significant-negative"})
      slots == IF Has(analysis, "scenarios") THEN MetricSlots(analysis.scenarios) ELSE <<>>
      res(p) == analysis.scenarios[p[1]].statistical[p[2]]
      entry(p) == MetricEntry(p[1], p[2], res(p).change.percent)
      sig == SelectSeq(slots, LAMBDA p : CountsAsChange(res(p)))
      reg == SelectSeq(slots, LAMBDA p : IsRegressionEntry(res(p)))
      imp == SelectSeq(slots, LAMBDA p : IsImprovementEntry(res(p)))
      significantChanges == [i \in 1..Len(sig) |-> entry(sig[i])]
      regressions == [i \in 1..Len(negCats) |-> InfraEntry(negCats[i], Impact(infra, negCats[i]))]
                     \o [i \in 1..Len(reg) |-> entry(reg[i])]
      improvements == [i \in 1..Len(posCats) |-> InfraEntry(posCats[i], Impact(infra, posCats[i]))]
                      \o [i \in 1..Len(imp) |-> entry(imp[i])]
  IN  [overallImpact |-> overallImpactOf(regressions, improvements),
       significantChanges |-> significantChanges,
       regressions |-> regressions,
       improvements |-> improvements,
       stability |-> stabilityOf(significantChanges)]

\* the categories of the recommendations, in order
generateRecommendations(analysis, summary) ==
  (IF Has(analysis, "infrastructure") /\ Impact(analysis.infrastructure, "cdn") = "negative"
   THEN <<"cdn">> ELSE <<>>)
  \o (IF Has(analysis, "infrastructure")
         /\ Impact(analysis.infrastructure, "compression") = "negative"
      THEN <<"compression">> ELSE <<>>)
  \o (IF Len(summary.regressions) > 0 THEN <<"regression">> ELSE <<>>)
  \o (IF summary.stability = "unstable" THEN <<"stability">> ELSE <<>>)

(***************************************************************************)
(* compareEnvironments                                                     *)
(***************************************************************************)
\* the exception compareInfrastructure raises, if any
InfrastructureThrows(b, c) ==
  Has(b, "infrastructure") /\ Has(c, "infrastructure")
  /\ SecurityThrows(b.infrastructure, c.infrastructure)

compareEnvironments(b, c) ==
  IF InfrastructureThrows(b, c)
  THEN [analysis |-> EmptyObject,
        summary |-> EmptyObject,
        recommendations |-> <<>>,
        error |-> "Cannot convert undefined or null to object"]
  ELSE LET parts == (IF Has(b, "infrastructure") /\ Has(c, "infrastructure")
                     THEN {"infrastructure"} ELSE {})
                    \cup (IF Has(b, "scenarios") /\ Has(c, "scenarios")
                          THEN {"scenarios"} ELSE {})
           analysis == [part \in parts |->
                          IF part = "infrastructure"
                          THEN compareInfrastructure(b.infrastructure, c.infrastructure)
                          ELSE compareScenarios(b.scenarios, c.scenarios)]
           summary == generateSummary(analysis)
       IN  [analysis |-> analysis,
            summary |-> summary,
            recommendations |-> generateRecommendations(analysis, summary)]

\* new Date().toISOString() at clock reading now: one string per instant
ISOString(now) == [k |-> "iso", ms |-> now]

\* baseline.environment?.name || fallback
EnvironmentName(x, fallback) ==
  IF Has(x, "environment") /\ Has(x.environment, "name") /\ Truthy(x.environment.name)
  THEN x.environment.name
  ELSE fallback

\* mutant: the clock reading leaks into the options field
compareEnvironmentsAt_ClockInOptions(now, b, c) ==
  [timestamp |-> ISOString(now),
   baseline |-> EnvironmentName(b, "baseline"),
   comparison |-> EnvironmentName(c, "comparison"),
   options |-> [at |-> now]]
  @@ compareEnvironments(b, c)

\* the whole comparisonResult: the header fields written before the try
\* block (the timestamp reads the clock) and the fields the try block fills
compareEnvironmentsAt(now, b, c) ==
  [timestamp |-> ISOString(now),
   baseline |-> EnvironmentName(b, "baseline"),
   comparison |-> EnvironmentName(c, "comparison"),
   options |-> EmptyObject]
  @@ compareEnvironments(b, c)

(***************************************************************************)
(* Inputs                                                                  *)
(***************************************************************************)
\* largest sample count of the statistics records handed to the t-test
MaxCount == 3

Means == {Num(-10), Num(0), Num(10), Fin(81, 8), Fin(105, 10), Fin(85, 8),
          Num(12), Num(20)}

Stddevs == {Num(0), Num(1), Num(5)}

Counts == 0..MaxCount

\* the records of the end-to-end example of the documentation
ExampleBaseline == StatsRecord(Num(369), Num(30), 10)

ExampleComparison == StatsRecord(Num(1959), Num(403), 10)

StatsInputs == {StatsRecord(m, sd, n) : m \in Means, sd \in Stddevs, n \in Counts}

StatsPairs == (StatsInputs \X StatsInputs)
              \cup {<<ExampleBaseline, ExampleComparison>>, <<ExampleComparison, ExampleBaseline>>}

\* statistics records of the metrics of a scenario
StatLow == StatsRecord(Num(300), Num(30), 10)

StatZero == StatsRecord(Num(369), Num(0), 10)

StatA == StatsRecord(Num(10), Num(1), 10)

StatHi == StatsRecord(Num(20), Num(1), 10)

StatNoisy == StatsRecord(Fin(106, 10), Num(1), 2)

\* statistics objects of a scenario: metric name -> statistics record
StatisticsInputs ==
  { [m \in Range(MetricNames) |-> IF m = "timing.total" THEN ExampleBaseline ELSE StatA],
    [m \in Range(MetricNames) |-> IF m = "timing.total" THEN ExampleComparison ELSE StatHi],
    [m \in Range(MetricNames) |->
       IF m = "timing.total" THEN StatLow ELSE IF m = "timing.ttfb" THEN StatHi ELSE StatA],
    [m \in {"timing.total", "timing.ttfb"} |->
       IF m = "timing.total" THEN StatZero ELSE StatNoisy] }

\* a scenario result with statistics, or one without
ScenarioInputs == {[statistics |-> st] : st \in StatisticsInputs} \cup {EmptyObject}

ScenariosInputs ==
  UNION {[names -> ScenarioInputs] : names \in SUBSET Range(ScenarioNames)}

\* infrastructure metadata of one environment
InfraBase ==
  [cdn |-> [detected |-> "true", provider |-> "Cloudflare"],
   compression |-> [algorithm |-> "gzip", ratio |-> Fin(50, 100)],
   protocols |-> [http2Support |-> "true", http3Support |-> "false"],
   security |-> [score |-> Num(80), headers |-> [hsts |-> "max-age=31536000", csp |-> "null"]],
   caching |-> [strategy |-> "immutable", effectiveness |-> Num(80)]]

InfraWorse ==
  [cdn |-> [detected |-> "false", provider |-> "null"],
   compression |-> [algorithm |-> "gzip", ratio |-> Fin(53, 100)],
   protocols |-> [http2Support |-> "false", http3Support |-> "false"],
   security |-> [score |-> Num(65), headers |-> [hsts |-> "null", csp |-> "null"]],
   caching |-> [strategy |-> "none", effectiveness |-> Num(60)]]

InfraBrotli ==
  [InfraBase EXCEPT !.compression = [algorithm |-> "br", ratio |-> Fin(40, 100)],
                    !.protocols = [http2Support |-> "true", http3Support |-> "true"]]

\* no CDN analysis at all
InfraNoCdn ==
  [c \in {"compression", "protocols", "security", "caching"} |-> InfraBase[c]]

\* the security analysis failed: the analyzer returns { error } for it
InfraSecurityError ==
  [InfraBase EXCEPT !.security = [error |-> "page.goto: Timeout 15000ms exceeded"]]

\* a security record with a score and no headers
InfraNoSecurityHeaders ==
  [InfraBase EXCEPT !.security = [score |-> Num(80)]]

\* the object analyze() returns, stored whole as the environment's
\* infrastructure: the categories sit one level down, under .infrastructure
InfraAnalysis ==
  [environment |-> "production", success |-> "true", infrastructure |-> InfraBase]

InfrastructureInputs ==
  {InfraBase, InfraWorse, InfraBrotli, InfraNoCdn, InfraSecurityError, InfraNoSecurityHeaders,
   InfraAnalysis}

\* the result sets handed to compareEnvironments
ResultSets ==
  {[scenarios |-> sc] : sc \in ScenariosInputs}
  \cup {[infrastructure |-> inf] : inf \in InfrastructureInputs}
  \cup {[infrastructure |-> inf, scenarios |-> sc] :
          inf \in InfrastructureInputs, sc \in ScenariosInputs}

(***************************************************************************)
(* State machine                                                           *)
(***************************************************************************)
InitTest ==
  /\ pc = "ready"
  /\ op = "performStatisticalTest"
  /\ \E p \in StatsPairs : baseline = p[1] /\ comparison = p[2]
  /\ result = None
  /\ clock = 0
  /\ history = <<>>

InitCompare ==
  /\ pc = "ready"
  /\ op = "compareEnvironments"
  /\ baseline \in ResultSets
  /\ comparison \in ResultSets
  /\ result = None
  /\ clock = 0
  /\ history = <<>>

PerformStatisticalTest ==
  /\ pc = "ready"
  /\ op = "performStatisticalTest"
  /\ result' = performStatisticalTest(baseline, comparison)
  /\ pc' = "done"
  /\ UNCHANGED <<op, baseline, comparison, clock, history>>

CompareEnvironments ==
  /\ pc = "ready"
  /\ op = "compareEnvironments"
  /\ result' = compareEnvironmentsAt(clock, baseline, comparison)
  /\ pc' = "done"
  /\ UNCHANGED <<op, baseline, comparison, clock, history>>

NextTest == PerformStatisticalTest

Next == CompareEnvironments

\* calls of performStatisticalTest
SpecTest == InitTest /\ [][NextTest]_vars

\* calls of compareEnvironments
Spec == InitCompare /\ [][Next]_vars

TypeOK == pc \in {"ready", "done"}

(***************************************************************************)
(* Properties                                                              *)
(***************************************************************************)
Done == pc = "done"

\* compareEnvironments caught an exception and set the error marker
Threw == Has(result, "error")

InList(e, list) == \E i \in DOMAIN list : list[i] = e

\* the (scenario, metric) pairs present on both sides of the inputs
CommonMetrics ==
  IF Has(baseline, "scenarios") /\ Has(comparison, "scenarios")
  THEN {p \in Range(ScenarioNames) \X Range(MetricNames) :
          /\ p[1] \in DOMAIN baseline.scenarios \cap DOMAIN comparison.scenarios
          /\ Has(baseline.scenarios[p[1]], "statistics")
          /\ Has(comparison.scenarios[p[1]], "statistics")
          /\ p[2] \in DOMAIN baseline.scenarios[p[1]].statistics
          /\ p[2] \in DOMAIN comparison.scenarios[p[1]].statistics}
  ELSE {}

\* the comparison result of a common metric, and its summary entry
Res(p) == result.analysis.scenarios[p[1]].statistical[p[2]]

EntryOf(p) == MetricEntry(p[1], p[2], Res(p).change.percent)

Significant(p) == Res(p).significance.isSignificant

LargeChange(p) == FGt(FAbs(Res(p).change.percent), Num(5))

Worse(p) == FGt(Res(p).change.percent, Num(0))

Better(p) == FLt(Res(p).change.percent, Num(0))

\* C1 (as stated): every common metric with |percent| > 5 is listed in
\* summary.regressions (percent > 0) or summary.improvements (percent < 0),
\* whether or not it is statistically significant.
C1_LargeChangesListedRegardless ==
  (Done /\ ~Threw) =>
    \A p \in CommonMetrics :
      LargeChange(p) =>
        /\ Worse(p) => InList(EntryOf(p), result.summary.regressions)
        /\ Better(p) => InList(EntryOf(p), result.summary.improvements)

\* C1 (amended): a common metric is listed in summary.regressions exactly when
\* it is statistically significant and its percent is above 5, and in
\* summary.improvements exactly when it is significant and its percent is
\* below -5; a change that is not significant is listed in neither.
C1_SignificantLargeChangesListed ==
  (Done /\ ~Threw) =>
    \A p \in CommonMetrics :
      /\ InList(EntryOf(p), result.summary.regressions)
           <=> (Significant(p) /\ LargeChange(p) /\ Worse(p))
      /\ InList(EntryOf(p), result.summary.improvements)
           <=> (Significant(p) /\ LargeChange(p) /\ Better(p))

\* a significant regression is listed next to a large change that is not
\* significant and is left out
C1_Witness ==
  /\ Done /\ ~Threw
  /\ \E p \in CommonMetrics :
       Significant(p) /\ LargeChange(p) /\ Worse(p)
       /\ InList(EntryOf(p), result.summary.regressions)
  /\ \E p \in CommonMetrics :
       ~Significant(p) /\ LargeChange(p) /\ Worse(p)
       /\ ~InList(EntryOf(p), result.summary.regressions)

\* C2: comparing a result set with itself gives overallImpact 'neutral' and
\* empty regressions, improvements and significantChanges (stated for the
\* calls that return a summary).
C2_IdenticalInputsNeutral ==
  (Done /\ baseline = comparison /\ ~Threw) =>
    /\ result.summary.overallImpact = "neutral"
    /\ result.summary.regressions = <<>>
    /\ result.summary.improvements = <<>>
    /\ result.summary.significantChanges = <<>>

\* C3: a compared metric whose test is significant and whose percent is above
\* 5 is interpreted as a regression and listed in summary.regressions; the
\* documented example (369/30/10 against 1959/403/10) has percent 430.89, is
\* significant and is listed.
C3_SignificantRegressionListed ==
  (Done /\ ~Threw) =>
    \A p \in CommonMetrics :
      /\ (Significant(p) /\ FGt(Res(p).change.percent, Num(5))) =>
           /\ Res(p).interpretation.summary = "Significant performance regression detected"
           /\ InList(EntryOf(p), result.summary.regressions)
      /\ (/\ baseline.scenarios[p[1]].statistics[p[2]] = ExampleBaseline
          /\ comparison.scenarios[p[1]].statistics[p[2]] = ExampleComparison) =>
           /\ Res(p).change.percent = Fin(43089, 100)
           /\ Significant(p)
           /\ Res(p).interpretation.summary = "Significant performance regression detected"
           /\ InList(EntryOf(p), result.summary.regressions)

\* the documented example has been compared and is listed as a regression
C3_Witness ==
  /\ Done /\ ~Threw
  /\ \E p \in CommonMetrics :
       /\ baseline.scenarios[p[1]].statistics[p[2]] = ExampleBaseline
       /\ comparison.scenarios[p[1]].statistics[p[2]] = ExampleComparison
       /\ InList(MetricEntry(p[1], p[2], Fin(43089, 100)), result.summary.regressions)

\* what welchTTest computes for the inputs of the state
Welch == welchTTest(baseline, comparison)

\* C4: when either record has count = 1, the test reports degreesOfFreedom = 0
\* and pValue = 1 and is not significant, whatever the means.
C4_SingleSampleNotSignificant ==
  (Done /\ (baseline.count = 1 \/ comparison.count = 1)) =>
    /\ Welch.degreesOfFreedom = Num(0)
    /\ result.significance.pValue = Num(1)
    /\ ~result.significance.isSignificant

\* both standard deviations are 0, or one of the counts is 0
Degenerate ==
  \/ (baseline.stddev = Num(0) /\ comparison.stddev = Num(0))
  \/ baseline.count = 0
  \/ comparison.count = 0

\* C5: degenerate statistics give the fallback pValue = 1 and isSignificant =
\* false, percent = 0 when baseline.mean = 0, and a NaN or infinite t statistic
\* never gives a significant verdict.
C5_DegenerateFallback ==
  Done =>
    /\ Degenerate => (result.significance.pValue = Num(1)
                      /\ ~result.significance.isSignificant)
    /\ baseline.mean = Num(0) => result.change.percent = Num(0)
    /\ result.significance.tStatistic.k # "fin" => ~result.significance.isSignificant

\* the p-value of the lookup table for a finite |t| with the given square
TableValue(sq) ==
  IF FLt(sq, Num(1)) THEN Fin(1, 2)
  ELSE IF FLt(sq, Num(4)) THEN Fin(1, 10)
  ELSE IF FLt(sq, Num(9)) THEN Fin(1, 100)
  ELSE IF FLt(sq, Num(16)) THEN Fin(1, 1000)
  ELSE Fin(1, 10000)

\* C6: the p-value is 1 when df <= 0 and otherwise 0.5, 0.1, 0.01, 0.001,
\* 0.0001 for |t| in [0,1), [1,2), [2,3), [3,4), [4,inf); with df > 0 the
\* test is significant exactly when |t| >= 2.
C6_PValueTable ==
  Done =>
    LET t == Welch.tStatistic
        df == Welch.degreesOfFreedom
        p == result.significance.pValue
    IN  /\ FLe(df, Num(0)) => p = Num(1)
        /\ (~FLe(df, Num(0)) /\ t.k = "fin") => p = TableValue(t.sq)
        /\ FGt(df, Num(0)) =>
             (result.significance.isSignificant
                <=> (t.k = "inf" \/ (t.k = "fin" /\ ~FLt(t.sq, Num(4)))))

\* a test with df > 0 and |t| in [2,3): p-value 0.01, significant
C6_Witness ==
  /\ Done
  /\ FGt(Welch.degreesOfFreedom, Num(0))
  /\ Welch.tStatistic.k = "fin"
  /\ ~FLt(Welch.tStatistic.sq, Num(4))
  /\ FLt(Welch.tStatistic.sq, Num(9))
  /\ result.significance.pValue = Fin(1, 100)
  /\ result.significance.isSignificant

\* v is x rounded to two decimals
RoundedTo2(v, x) ==
  /\ IsFinite(v)
  /\ (100 * v.n) % v.d = 0
  /\ FLe(FAbs(FSub(v, x)), Fin(1, 200))

MeanDifference == FSub(comparison.mean, baseline.mean)

DirectionBySign ==
  result.change.direction =
    (IF FGt(MeanDifference, Num(0)) THEN "increase"
     ELSE IF FLt(MeanDifference, Num(0)) THEN "decrease" ELSE "no-change")

\* C7 (as stated): absolute is the difference of the means and percent is
\* 100 * absolute / baseline.mean for every baseline.mean other than 0,
\* negative means included (both to two decimals); direction follows the sign
\* of the difference.
C7_PercentForEveryNonZeroMean ==
  Done =>
    /\ RoundedTo2(result.change.absolute, MeanDifference)
    /\ baseline.mean # Num(0) =>
         RoundedTo2(result.change.percent,
                    FDiv(FMul(Num(100), MeanDifference), baseline.mean))
    /\ baseline.mean = Num(0) => result.change.percent = Num(0)
    /\ DirectionBySign

\* C7 (amended): absolute is the difference of the means rounded to two
\* decimals; percent is 100 * (comparison.mean - baseline.mean) /
\* baseline.mean rounded to two decimals when baseline.mean > 0, and 0 when
\* baseline.mean is 0 or negative; direction follows the sign of the
\* difference.
C7_PercentForPositiveMean ==
  Done =>
    /\ RoundedTo2(result.change.absolute, MeanDifference)
    /\ FGt(baseline.mean, Num(0)) =>
         RoundedTo2(result.change.percent,
                    FDiv(FMul(Num(100), MeanDifference), baseline.mean))
    /\ ~FGt(baseline.mean, Num(0)) => result.change.percent = Num(0)
    /\ DirectionBySign

\* a negative baseline mean with a different comparison mean: percent is 0
\* although the means differ
C7_Witness ==
  /\ Done
  /\ FLt(baseline.mean, Num(0))
  /\ result.change.direction = "increase"
  /\ result.change.absolute # Num(0)
  /\ result.change.percent = Num(0)

\* the test of the baseline against the comparison record moved to mean m
Moved(m) == performStatisticalTest(baseline, StatsRecord(m, comparison.stddev, comparison.count))

Farther(m) ==
  FLe(FAbs(MeanDifference), FAbs(FSub(m, baseline.mean)))

\* the means the comparison record is moved to
MovedMeans ==
  IF baseline.mean \in Means THEN Means
  ELSE {ExampleBaseline.mean, ExampleComparison.mean, Num(400), Num(3000)}

\* C8: with stddevs and counts fixed, a larger |mean1 - mean2| never gives a
\* larger p-value and never turns a significant verdict into an
\* insignificant one.
C8_MonotoneInMeanDifference ==
  Done =>
    \A m \in MovedMeans :
      Farther(m) =>
        /\ FLe(Moved(m).significance.pValue, result.significance.pValue)
        /\ result.significance.isSignificant => Moved(m).significance.isSignificant

\* an insignificant test that becomes significant when the means move apart
C8_Witness ==
  /\ Done
  /\ ~result.significance.isSignificant
  /\ \E m \in MovedMeans :
       /\ Farther(m)
       /\ Moved(m).significance.isSignificant
       /\ FLt(Moved(m).significance.pValue, result.significance.pValue)

\* the infrastructure categories whose impact is in the given set
InfraLabels(impacts) ==
  IF Has(result.analysis, "infrastructure")
  THEN {cat \in Range(InfraCategories) : Impact(result.analysis.infrastructure, cat) \in impacts}
  ELSE {}

\* C9: overallImpact is 'negative' iff there are more regressions than
\* improvements, 'positive' iff fewer, else 'neutral'; stability is
\* 'unstable' iff there are more than 5 significant changes, 'changing' iff
\* 3, 4 or 5, else 'stable'; infrastructure impact labels count towards the
\* regressions and improvements.
C9_ImpactAndStability ==
  (Done /\ ~Threw) =>
    LET sm == result.summary
        nReg == Len(sm.regressions)
        nImp == Len(sm.improvements)
        nSig == Len(sm.significantChanges)
    IN  /\ sm.overallImpact = "negative" <=> nReg > nImp
        /\ sm.overallImpact = "positive" <=> nImp > nReg
        /\ sm.overallImpact = "neutral" <=> nImp = nReg
        /\ sm.stability = "unstable" <=> nSig > 5
        /\ sm.stability = "changing" <=> nSig \in {3, 4, 5}
        /\ sm.stability = "stable" <=> nSig < 3
        /\ nReg = Cardinality(InfraLabels({"negative", "significant-negative"}))
                  + Cardinality({p \in CommonMetrics :
                                   Significant(p) /\ LargeChange(p) /\ Worse(p)})
        /\ nImp = Cardinality(InfraLabels({"positive", "significant-positive"}))
                  + Cardinality({p \in CommonMetrics :
                                   Significant(p) /\ LargeChange(p) /\ Better(p)})
        /\ nSig = Cardinality({p \in CommonMetrics : Significant(p)})

\* five significant changes ('changing'), with infrastructure labels deciding
\* the overall impact
C9_Witness ==
  /\ Done /\ ~Threw
  /\ Len(result.summary.significantChanges) = 5
  /\ result.summary.stability = "changing"
  /\ InfraLabels({"positive", "significant-positive"}) # {}
  /\ Len(result.summary.improvements) > Len(result.summary.regressions)
  /\ result.summary.overallImpact = "positive"

\* part of the infrastructure metadata of x is absent
PartialInfrastructure(x) ==
  /\ Has(x, "infrastructure")
  /\ \/ \E cat \in Range(InfraCategories) : ~Has(x.infrastructure, cat)
     \/ (Has(x.infrastructure, "security") /\ ~Has(x.infrastructure.security, "headers"))

\* C10: when part of the infrastructure metadata is absent on either side,
\* compareEnvironments returns without an error marker, compares every
\* scenario present on both sides and returns a complete summary.
C10_MissingDataDoesNotPreventReport ==
  (Done /\ (PartialInfrastructure(baseline) \/ PartialInfrastructure(comparison))) =>
    /\ ~Threw
    /\ (Has(baseline, "scenarios") /\ Has(comparison, "scenarios")) =>
         /\ Has(result.analysis, "scenarios")
         /\ DOMAIN result.analysis.scenarios
              = DOMAIN baseline.scenarios \cap DOMAIN comparison.scenarios
    /\ DOMAIN result.summary
         = {"overallImpact", "significantChanges", "regressions", "improvements", "stability"}

(***************************************************************************)
(* Repeated comparison: the clock between two calls of compareEnvironments *)
(***************************************************************************)
\* largest reading of the clock
MaxClock == 2

\* result sets compared twice
TwiceInputs ==
  {[scenarios |-> [n \in {"cold-start"} |-> sc]] : sc \in ScenarioInputs}
  \cup {[infrastructure |-> inf] : inf \in InfrastructureInputs}
  \cup {[environment |-> [name |-> "production"],
         infrastructure |-> InfraBase,
         scenarios |-> [n \in Range(ScenarioNames) |-> sc]] : sc \in ScenarioInputs}

InitTwice ==
  /\ pc = "ready"
  /\ op = "compareEnvironments"
  /\ baseline \in TwiceInputs
  /\ comparison \in TwiceInputs
  /\ result = None
  /\ clock = 0
  /\ history = <<>>

\* time passes between two statements of the caller
Tick ==
  /\ clock < MaxClock
  /\ clock' = clock + 1
  /\ UNCHANGED <<pc, op, baseline, comparison, result, history>>

\* the caller invokes compareEnvironments a second time on the same inputs
CompareEnvironmentsAgain ==
  /\ pc = "done"
  /\ op = "compareEnvironments"
  /\ history' = Append(history, result)
  /\ result' = compareEnvironmentsAt(clock, baseline, comparison)
  /\ pc' = "again"
  /\ UNCHANGED <<op, baseline, comparison, clock>>

NextTwice == CompareEnvironments \/ Tick \/ CompareEnvironmentsAgain

\* two calls of compareEnvironments on the same inputs
SpecTwice == InitTwice /\ [][NextTwice]_vars

\* the fields of a comparison result other than its timestamp
WithoutTimestamp(r) == [f \in DOMAIN r \ {"timestamp"} |-> r[f]]

thresholds ==
  [coefficientOfVariation |-> 10,
   regressionThreshold |-> 5,
   successRateThreshold |-> 95,
   maxExecutionTime |-> 30000,
   minIterations |-> 3,
   maxIterations |-> 100]

JNull == [k |-> "null", n |-> 0, d |-> 1]

JString(s) == [k |-> "string", s |-> s]

JBoolean(b) == [k |-> "boolean", b |-> b]

JObject(keys, at) == [k |-> "object", keys |-> keys, at |-> at]

\* typeof value
TypeOf(v) ==
  CASE v.k \in {"fin", "nan", "inf"} -> "number"
    [] v.k = "string" -> "string"
    [] v.k = "boolean" -> "boolean"
    [] v.k = "undef" -> "undefined"
    [] OTHER -> "object"

\* truthiness of a tagged value
JTruthy(v) ==
  CASE v.k = "fin" -> v.n # 0
    [] v.k \in {"nan", "undef", "null"} -> FALSE
    [] v.k = "string" -> v.s # ""
    [] v.k = "boolean" -> v.b = "true"
    [] OTHER -> TRUE

\* obj[key] of a tagged object
Get(obj, key) == IF key \in DOMAIN obj.at THEN obj.at[key] ELSE Undef

\* concatenation of a sequence of sequences
RECURSIVE Flatten(_)
Flatten(seqs) == IF seqs = <<>> THEN <<>> ELSE Head(seqs) \o Flatten(Tail(seqs))

\* Object.entries order of a record whose keys were inserted in the order
\* of the sequence order
Keys(obj, order) == SelectSeq(order, LAMBDA key : key \in DOMAIN obj)

\* extractFromObject of extractIterationMetrics, from the i-th key on: the
\* number-valued leaves of obj, depth first, named by their dotted path
RECURSIVE extractFromObject(_, _, _)
extractFromObject(obj, prefix, i) ==
  IF i > Len(obj.keys) THEN <<>>
  ELSE LET key == obj.keys[i]
           value == obj.at[key]
           fullKey == IF prefix # "" THEN prefix \o "." \o key ELSE key
       IN  (IF TypeOf(value) = "number"
            THEN <<[name |-> fullKey, value |-> value]>>
            ELSE IF value.k = "object"
                 THEN extractFromObject(value, fullKey, 1)
                 ELSE <<>>)
           \o extractFromObject(obj, prefix, i + 1)

extractIterationMetrics(iteration) == extractFromObject(iteration, "", 1)

\* the dotted paths the model splits
MetricPaths == {<<"timing", "total">>, <<"timing", "ttfb">>, <<"size", "transfer">>}

RECURSIVE JoinPath(_)
JoinPath(parts) ==
  IF Len(parts) = 1 THEN parts[1] ELSE parts[1] \o "." \o JoinPath(Tail(parts))

\* metricPath.split('.')
Split(metricPath) ==
  IF \E parts \in MetricPaths : JoinPath(parts) = metricPath
  THEN CHOOSE parts \in MetricPaths : JoinPath(parts) = metricPath
  ELSE <<metricPath>>

RECURSIVE WalkPath(_, _)
WalkPath(current, parts) ==
  IF parts = <<>> THEN current
  ELSE IF current.k = "object" /\ Head(parts) \in DOMAIN current.at
       THEN WalkPath(current.at[Head(parts)], Tail(parts))
       ELSE JNull

extractMetricValue(iteration, metricPath) ==
  LET current == WalkPath(iteration, Split(metricPath))
  IN  IF TypeOf(current) = "number" THEN current ELSE JNull

\* typeof stats === 'object' && stats.mean !== undefined && stats[field] !== undefined,
\* for an entry of a statistics object that is not null
IsStats(stats, field) ==
  /\ "k" \notin DOMAIN stats
  /\ "mean" \in DOMAIN stats
  /\ field \in DOMAIN stats

\* key order of a statistics object (calculateScenarioStatistics)
StatisticsKeys ==
  <<"iteration", "attempt">> \o MetricNames \o <<"validRuns", "totalRuns", "successRate">>

\* the callback isOutlier hands to forEach reaches its `return true`
\* for this entry of the statistics
ZScoreAbove3(iteration, metric, stats) ==
  /\ IsStats(stats, "stddev")
  /\ LET metricValue == extractMetricValue(iteration, metric)
     IN  /\ metricValue.k # "null"
         /\ FGt(FAbs(FDiv(FSub(metricValue, stats.mean), stats.stddev)), Num(3))

\* isOutlier(iteration, scenario.statistics): the z-score test sits in a
\* forEach callback, whose return value forEach discards, so after the
\* guard every path reaches the final `return false`
isOutlier(iteration, scenario) ==
  IF ~Has(scenario, "statistics") \/ ~JTruthy(Get(iteration, "phases"))
  THEN FALSE
  ELSE FALSE

\* a sub-report is built from its findings in the order the code makes
\* them: each finding is pushed to issues or to warnings, and may set
\* passed = false
Issue(item) == [to |-> "issues", fails |-> TRUE, item |-> item]

Warning(item) == [to |-> "warnings", fails |-> FALSE, item |-> item]

Items(findings, list) ==
  LET sel == SelectSeq(findings, LAMBDA f : f.to = list)
  IN  [i \in 1..Len(sel) |-> sel[i].item]

SubReport(findings, metrics) ==
  [passed |-> \A i \in 1..Len(findings) : ~findings[i].fails,
   issues |-> Items(findings, "issues"),
   warnings |-> Items(findings, "warnings"),
   metrics |-> metrics]

\* the scenarios a complete run covers, in the order the suite runs them
expectedScenarios == <<"cold-start", "warm-start", "critical-path", "api-endpoints">>

\* Object.entries(results.results): environment names in insertion order
Environments(results) == results.results.keys

EnvResult(results, envName) == results.results.at[envName]

\* Object.entries(envResult.scenarios), [] when the environment has none
Scenarios(envResult) ==
  IF Has(envResult, "scenarios") THEN Keys(envResult.scenarios, expectedScenarios) ELSE <<>>

\* scenario.iterations?.length || 0
IterationCount(scenario) ==
  IF Has(scenario, "iterations") THEN Len(scenario.iterations) ELSE 0

ExecutionScenarioFindings(envName, scenarioName, scenario) ==
  (IF Truthy(Str(scenario, "error"))
   THEN <<Issue([type |-> "scenario_error", severity |-> "error",
                 environment |-> envName, scenario |-> scenarioName])>>
   ELSE <<>>)
  \o (IF IterationCount(scenario) < thresholds.minIterations
      THEN <<Issue([type |-> "insufficient_iterations", severity |-> "error",
                    environment |-> envName, scenario |-> scenarioName])>>
      ELSE IF IterationCount(scenario) > thresholds.maxIterations
           THEN <<Warning([type |-> "excessive_iterations", severity |-> "warning",
                           environment |-> envName, scenario |-> scenarioName])>>
           ELSE <<>>)

ExecutionEnvironmentFindings(envName, envResult) ==
  (IF Truthy(Str(envResult, "error"))
   THEN <<Issue([type |-> "environment_error", severity |-> "error",
                 environment |-> envName])>>
   ELSE <<>>)
  \o LET names == Scenarios(envResult)
     IN  Flatten([i \in 1..Len(names) |->
                    ExecutionScenarioFindings(envName, names[i],
                                              envResult.scenarios[names[i]])])

ExecutionDurationFindings(results) ==
  IF ~Has(results, "metadata") THEN <<>>
  ELSE LET duration == ToNumber(Number(results.metadata, "duration"))
       IN  IF FGt(duration, Num(thresholds.maxExecutionTime * 10))
           THEN <<Issue([type |-> "execution_time", severity |-> "error",
                         threshold |-> thresholds.maxExecutionTime * 10])>>
           ELSE IF FGt(duration, Num(thresholds.maxExecutionTime * 5))
                THEN <<Warning([type |-> "execution_time", severity |-> "warning",
                                threshold |-> thresholds.maxExecutionTime * 5])>>
                ELSE <<>>

validateExecution(results) ==
  SubReport(
    ExecutionDurationFindings(results)
    \o (IF Has(results, "results")
        THEN LET envs == Environments(results)
             IN  Flatten([i \in 1..Len(envs) |->
                            ExecutionEnvironmentFindings(envs[i], EnvResult(results, envs[i]))])
        ELSE <<>>),
    IF Has(results, "metadata")
    THEN [duration |-> Number(results.metadata, "duration")]
    ELSE EmptyObject)

\* the (environment, scenario) pairs of a run whose scenario has the field,
\* in visiting order
ScenarioSlots(results, field) ==
  LET envs == Environments(results)
  IN  Flatten([i \in 1..Len(envs) |->
        LET envResult == EnvResult(results, envs[i])
            names == SelectSeq(Scenarios(envResult),
                               LAMBDA n : Has(envResult.scenarios[n], field))
        IN  [j \in 1..Len(names) |->
               [environment |-> envs[i], scenario |-> names[j],
                value |-> envResult.scenarios[names[j]]]]])

\* the statistics records validateStatistics examines, in visiting order
StatisticsSlots(results) ==
  LET slots == ScenarioSlots(results, "statistics")
  IN  Flatten([i \in 1..Len(slots) |->
        LET statistics == slots[i].value.statistics
            metrics == SelectSeq(Keys(statistics, StatisticsKeys),
                                 LAMBDA m : IsStats(statistics[m], "cv"))
        IN  [j \in 1..Len(metrics) |->
               [environment |-> slots[i].environment, scenario |-> slots[i].scenario,
                metric |-> metrics[j], stats |-> statistics[metrics[j]]]]])

IsUnstable(stats) == FGt(stats.cv, Num(thresholds.coefficientOfVariation * 2))

IsModerate(stats) == ~IsUnstable(stats) /\ FGt(stats.cv, Num(thresholds.coefficientOfVariation))

\* mutant: the instability threshold is 20 inclusive
StatisticsMetricFindings_Inclusive(slot) ==
  (IF ~FLt(slot.stats.cv, Num(thresholds.coefficientOfVariation * 2))
   THEN <<Issue([type |-> "high_variability", severity |-> "error",
                 environment |-> slot.environment, scenario |-> slot.scenario,
                 metric |-> slot.metric, value |-> slot.stats.cv,
                 threshold |-> thresholds.coefficientOfVariation * 2])>>
   ELSE IF IsModerate(slot.stats)
        THEN <<Warning([type |-> "moderate_variability", severity |-> "warning",
                        environment |-> slot.environment, scenario |-> slot.scenario,
                        metric |-> slot.metric, value |-> slot.stats.cv,
                        threshold |-> thresholds.coefficientOfVariation])>>
        ELSE <<>>)
  \o (IF slot.stats.count < 5
      THEN <<Warning([type |-> "small_sample_size", severity |-> "warning",
                      environment |-> slot.environment, scenario |-> slot.scenario,
                      metric |-> slot.metric, value |-> slot.stats.count])>>
      ELSE <<>>)

StatisticsMetricFindings(slot) ==
  (IF IsUnstable(slot.stats)
   THEN <<Issue([type |-> "high_variability", severity |-> "error",
                 environment |-> slot.environment, scenario |-> slot.scenario,
                 metric |-> slot.metric, value |-> slot.stats.cv,
                 threshold |-> thresholds.coefficientOfVariation * 2])>>
   ELSE IF IsModerate(slot.stats)
        THEN <<Warning([type |-> "moderate_variability", severity |-> "warning",
                        environment |-> slot.environment, scenario |-> slot.scenario,
                        metric |-> slot.metric, value |-> slot.stats.cv,
                        threshold |-> thresholds.coefficientOfVariation])>>
        ELSE <<>>)
  \o (IF slot.stats.count < 5
      THEN <<Warning([type |-> "small_sample_size", severity |-> "warning",
                      environment |-> slot.environment, scenario |-> slot.scenario,
                      metric |-> slot.metric, value |-> slot.stats.count])>>
      ELSE <<>>)

\* mutant: a success rate of exactly 80 fails the sub-report
SuccessRateFindings_Inclusive(envName, scenarioName, statistics) ==
  IF Has(statistics, "successRate")
     /\ FLt(statistics.successRate, Num(thresholds.successRateThreshold))
  THEN <<[to |-> "issues",
          fails |-> FLe(statistics.successRate, Num(80)),
          item |-> [type |-> "low_success_rate",
                    severity |-> IF FLe(statistics.successRate, Num(80))
                                 THEN "error" ELSE "warning",
                    environment |-> envName, scenario |-> scenarioName,
                    value |-> statistics.successRate,
                    threshold |-> thresholds.successRateThreshold]]>>
  ELSE <<>>

\* the success-rate check of a scenario's statistics: an issue below 95,
\* which sets passed = false only below 80
\* mutant: every low success rate fails the sub-report, whatever its severity
SuccessRateFindings_AlwaysFails(envName, scenarioName, statistics) ==
  IF Has(statistics, "successRate")
     /\ FLt(statistics.successRate, Num(thresholds.successRateThreshold))
  THEN <<[to |-> "issues",
          fails |-> TRUE,
          item |-> [type |-> "low_success_rate",
                    severity |-> IF FLt(statistics.successRate, Num(80))
                                 THEN "error" ELSE "warning",
                    environment |-> envName, scenario |-> scenarioName,
                    value |-> statistics.successRate,
                    threshold |-> thresholds.successRateThreshold]]>>
  ELSE <<>>

SuccessRateFindings(envName, scenarioName, statistics) ==
  IF Has(statistics, "successRate")
     /\ FLt(statistics.successRate, Num(thresholds.successRateThreshold))
  THEN <<[to |-> "issues",
          fails |-> FLt(statistics.successRate, Num(80)),
          item |-> [type |-> "low_success_rate",
                    severity |-> IF FLt(statistics.successRate, Num(80))
                                 THEN "error" ELSE "warning",
                    environment |-> envName, scenario |-> scenarioName,
                    value |-> statistics.successRate,
                    threshold |-> thresholds.successRateThreshold]]>>
  ELSE <<>>

StatisticsScenarioFindings(results, slot) ==
  LET mine == SelectSeq(StatisticsSlots(results),
                        LAMBDA m : m.environment = slot.environment
                                   /\ m.scenario = slot.scenario)
  IN  Flatten([i \in 1..Len(mine) |-> StatisticsMetricFindings(mine[i])])
      \o SuccessRateFindings(slot.environment, slot.scenario, slot.value.statistics)

\* number of elements of a sequence that satisfy test
Count(seq, test(_)) == Len(SelectSeq(seq, test))

\* an entry of a statistics object is null: reading its .mean raises a TypeError
StatisticsThrows(results) ==
  /\ Has(results, "results")
  /\ LET slots == ScenarioSlots(results, "statistics")
     IN  \E i \in 1..Len(slots) :
           \E m \in DOMAIN slots[i].value.statistics :
             /\ "k" \in DOMAIN slots[i].value.statistics[m]
             /\ slots[i].value.statistics[m].k = "null"

validateStatistics(results) ==
  IF ~Has(results, "results") THEN SubReport(<<>>, EmptyObject)
  ELSE LET slots == ScenarioSlots(results, "statistics")
           metrics == StatisticsSlots(results)
           totalMetrics == Len(metrics)
           unstableMetrics == Count(metrics, LAMBDA m : IsUnstable(m.stats))
           reliableMetrics ==
             Count(metrics, LAMBDA m : ~IsUnstable(m.stats) /\ ~IsModerate(m.stats))
       IN  SubReport(
             Flatten([i \in 1..Len(slots) |-> StatisticsScenarioFindings(results, slots[i])]),
             [total |-> totalMetrics,
              reliable |-> reliableMetrics,
              unstable |-> unstableMetrics,
              reliabilityRate |->
                IF totalMetrics > 0
                THEN FMul(FDiv(Num(reliableMetrics), Num(totalMetrics)), Num(100))
                ELSE Num(0)])

\* iteration.error || iteration.failed
IterationFailed(iteration) ==
  JTruthy(Get(iteration, "error")) \/ JTruthy(Get(iteration, "failed"))

\* the null_metric warnings of an iteration: one for each extracted metric
\* whose value is null or undefined
NullMetricFindings(envName, scenarioName, index, iteration) ==
  LET metrics == SelectSeq(extractIterationMetrics(iteration),
                           LAMBDA m : m.value.k \in {"null", "undef"})
  IN  [i \in 1..Len(metrics) |->
         Warning([type |-> "null_metric", severity |-> "warning",
                  environment |-> envName, scenario |-> scenarioName,
                  iteration |-> index, metric |-> metrics[i].name])]

DataQualityIterationFindings(envName, scenarioName, scenario, index) ==
  LET iteration == scenario.iterations[index]
  IN  IF IterationFailed(iteration)
      THEN <<Warning([type |-> "failed_iteration", severity |-> "warning",
                      environment |-> envName, scenario |-> scenarioName,
                      iteration |-> index])>>
      ELSE NullMetricFindings(envName, scenarioName, index, iteration)
           \o (IF isOutlier(iteration, scenario)
               THEN <<Warning([type |-> "outlier", severity |-> "warning",
                               environment |-> envName, scenario |-> scenarioName,
                               iteration |-> index])>>
               ELSE <<>>)

\* the iterations validateDataQuality visits, in visiting order
IterationSlots(results) ==
  LET slots == ScenarioSlots(results, "iterations")
  IN  Flatten([i \in 1..Len(slots) |->
        [j \in 1..Len(slots[i].value.iterations) |->
           [environment |-> slots[i].environment, scenario |-> slots[i].scenario,
            value |-> slots[i].value, index |-> j,
            iteration |-> slots[i].value.iterations[j]]]])

\* mutant: the two rate thresholds are inclusive
DataRateFindings_Inclusive(validDataRate) ==
  IF FLe(validDataRate, Num(80))
  THEN <<Issue([type |-> "low_data_quality", severity |-> "error",
                value |-> validDataRate, threshold |-> 80])>>
  ELSE IF FLe(validDataRate, Num(90))
       THEN <<Warning([type |-> "moderate_data_quality", severity |-> "warning",
                       value |-> validDataRate, threshold |-> 90])>>
       ELSE <<>>

\* the finding for the overall valid data rate: an error below 80, a
\* warning below 90
DataRateFindings(validDataRate) ==
  IF FLt(validDataRate, Num(80))
  THEN <<Issue([type |-> "low_data_quality", severity |-> "error",
                value |-> validDataRate, threshold |-> 80])>>
  ELSE IF FLt(validDataRate, Num(90))
       THEN <<Warning([type |-> "moderate_data_quality", severity |-> "warning",
                       value |-> validDataRate, threshold |-> 90])>>
       ELSE <<>>

validateDataQuality(results) ==
  IF ~Has(results, "results") THEN SubReport(<<>>, EmptyObject)
  ELSE LET slots == IterationSlots(results)
           totalIterations == Len(slots)
           validIterations == Count(slots, LAMBDA x : ~IterationFailed(x.iteration))
           findings ==
             Flatten([i \in 1..Len(slots) |->
                        DataQualityIterationFindings(slots[i].environment, slots[i].scenario,
                                                     slots[i].value, slots[i].index)])
           validDataRate ==
             IF totalIterations > 0
             THEN FMul(FDiv(Num(validIterations), Num(totalIterations)), Num(100))
             ELSE Num(0)
           rateFindings == DataRateFindings(validDataRate)
       IN  SubReport(
             findings \o rateFindings,
             [totalIterations |-> totalIterations,
              validIterations |-> validIterations,
              validDataRate |-> validDataRate,
              nullMetrics |-> Count(findings, LAMBDA f : f.item.type = "null_metric"),
              outliers |-> Count(findings, LAMBDA f : f.item.type = "outlier")])

\* infra[category]?.[field] for a string or boolean field
Opt(infra, category, field) ==
  IF Has(infra, category) THEN Str(infra[category], field) ELSE "undefined"

\* the values of a sequence
Distinct(seq) == {seq[i] : i \in 1..Len(seq)}

detectInfrastructureInconsistencies(infraConfigs, envNames) ==
  LET providers == SelectSeq([i \in 1..Len(envNames) |->
                                Opt(infraConfigs[envNames[i]], "cdn", "provider")], Truthy)
      algorithms == SelectSeq([i \in 1..Len(envNames) |->
                                 Opt(infraConfigs[envNames[i]], "compression", "algorithm")],
                              Truthy)
      http2Support == [i \in 1..Len(envNames) |->
                         Opt(infraConfigs[envNames[i]], "protocols", "http2Support")]
  IN  (IF Cardinality(Distinct(providers)) > 1
       THEN <<Warning([type |-> "cdn_inconsistency", severity |-> "warning",
                       environments |-> envNames])>>
       ELSE <<>>)
      \o (IF Cardinality(Distinct(algorithms)) > 1
          THEN <<Warning([type |-> "compression_inconsistency", severity |-> "warning",
                          environments |-> envNames])>>
          ELSE <<>>)
      \o (IF Cardinality(Distinct(http2Support)) > 1
          THEN <<Warning([type |-> "protocol_inconsistency", severity |-> "warning",
                          environments |-> envNames])>>
          ELSE <<>>)

validateEnvironmentInfrastructure(envName, infra) ==
  (IF ~Truthy(Opt(infra, "cdn", "detected"))
   THEN <<Warning([type |-> "no_cdn", severity |-> "warning", environment |-> envName])>>
   ELSE <<>>)
  \o (IF ~Truthy(Opt(infra, "compression", "enabled"))
      THEN <<Issue([type |-> "no_compression", severity |-> "error",
                    environment |-> envName])>>
      ELSE IF Opt(infra, "compression", "effectiveness") = "poor"
           THEN <<Warning([type |-> "poor_compression", severity |-> "warning",
                           environment |-> envName])>>
           ELSE <<>>)
  \o (IF ~Truthy(Opt(infra, "protocols", "http2Support"))
      THEN <<Warning([type |-> "no_http2", severity |-> "warning", environment |-> envName])>>
      ELSE <<>>)
  \o (IF Has(infra, "security") /\ Has(infra.security, "score")
         /\ FLt(infra.security.score, Num(70))
      THEN <<Issue([type |-> "low_security_score", severity |-> "error",
                    environment |-> envName, value |-> infra.security.score,
                    threshold |-> 70])>>
      ELSE <<>>)

validateInfrastructure(results) ==
  IF ~Has(results, "results") THEN SubReport(<<>>, EmptyObject)
  ELSE LET environments == Environments(results)
           envNames == SelectSeq(environments,
                                 LAMBDA e : Has(EnvResult(results, e), "infrastructure"))
           infraConfigs == [e \in Distinct(envNames) |-> EnvResult(results, e).infrastructure]
       IN  SubReport(
             (IF Len(environments) > 1
              THEN detectInfrastructureInconsistencies(infraConfigs, envNames)
              ELSE <<>>)
             \o Flatten([i \in 1..Len(envNames) |->
                           validateEnvironmentInfrastructure(envNames[i],
                                                             infraConfigs[envNames[i]])]),
             EmptyObject)

validateCoverage(results) ==
  IF ~Has(results, "results") THEN SubReport(<<>>, EmptyObject)
  ELSE LET envs == Environments(results)
           foundScenarios ==
             UNION {IF Has(EnvResult(results, envs[i]), "scenarios")
                    THEN DOMAIN EnvResult(results, envs[i]).scenarios
                    ELSE {} : i \in 1..Len(envs)}
           missingScenarios ==
             SelectSeq(expectedScenarios, LAMBDA n : n \notin foundScenarios)
       IN  SubReport(
             IF Len(missingScenarios) > 0
             THEN <<Warning([type |-> "missing_scenarios", severity |-> "warning",
                             missing |-> missingScenarios])>>
             ELSE <<>>,
             [expectedScenarios |-> Len(expectedScenarios),
              foundScenarios |-> Cardinality(foundScenarios),
              coverageRate |->
                FMul(FDiv(Num(Cardinality(foundScenarios)), Num(Len(expectedScenarios))),
                     Num(100)),
              missingScenarios |-> Len(missingScenarios)])

\* issue.type.includes(word): the issue and warning types that contain word
TypesIncluding ==
  [execution |-> {"execution_time"},
   variability |-> {"high_variability", "moderate_variability"},
   data |-> {"low_data_quality", "moderate_data_quality"},
   compression |-> {"no_compression", "poor_compression", "compression_inconsistency"},
   security |-> {"low_security_score"}]

AnyIssue(issues, words) ==
  \E i \in 1..Len(issues) : \E w \in words : issues[i].type \in TypesIncluding[w]

generateValidationRecommendations(issues) ==
  (IF AnyIssue(issues, {"execution"})
   THEN <<[type |-> "execution", priority |-> "high",
           message |-> "Address test execution failures"]>>
   ELSE <<>>)
  \o (IF AnyIssue(issues, {"variability"})
      THEN <<[type |-> "reliability", priority |-> "medium",
              message |-> "Improve test measurement reliability"]>>
      ELSE <<>>)
  \o (IF AnyIssue(issues, {"data"})
      THEN <<[type |-> "data-quality", priority |-> "medium",
              message |-> "Improve data collection quality"]>>
      ELSE <<>>)
  \o (IF AnyIssue(issues, {"compression", "security"})
      THEN <<[type |-> "infrastructure", priority |-> "high",
              message |-> "Address infrastructure configuration issues"]>>
      ELSE <<>>)

\* insertion order of validation.detailed
Sections == <<"execution", "statistics", "dataQuality", "infrastructure", "coverage">>

Max(a, b) == IF a > b THEN a ELSE b

Min(a, b) == IF a < b THEN a ELSE b

\* mutant: warnings cost as much as issues
ValidationScore_WarningsAsIssues(totalIssues, totalWarnings) ==
  Max(0, 100 - totalIssues * 10 - totalWarnings * 10)

ValidationScore(totalIssues, totalWarnings) ==
  Max(0, 100 - totalIssues * 10 - totalWarnings * 5)

\* the fields aggregateValidationResults writes into the report
aggregateValidationResults(detailed) ==
  LET names == Keys(detailed, Sections)
      issues == Flatten([i \in 1..Len(names) |-> detailed[names[i]].issues])
      warnings == Flatten([i \in 1..Len(names) |-> detailed[names[i]].warnings])
  IN  [passed |-> \A i \in 1..Len(names) : detailed[names[i]].passed,
       score |-> ValidationScore(Len(issues), Len(warnings)),
       issues |-> issues,
       warnings |-> warnings,
       recommendations |-> generateValidationRecommendations(issues)]

\* the report validateTestRun resolves to, at clock reading now
validateTestRun(now, results) ==
  IF StatisticsThrows(results)
  THEN [timestamp |-> ISOString(now),
        passed |-> FALSE,
        score |-> 0,
        issues |-> <<>>,
        warnings |-> <<>>,
        recommendations |-> <<>>,
        detailed |-> [execution |-> validateExecution(results)],
        error |-> "Cannot read properties of null (reading 'mean')"]
  ELSE LET detailed == [execution |-> validateExecution(results),
                        statistics |-> validateStatistics(results),
                        dataQuality |-> validateDataQuality(results),
                        infrastructure |-> validateInfrastructure(results),
                        coverage |-> validateCoverage(results)]
       IN  [timestamp |-> ISOString(now), detailed |-> detailed]
           @@ aggregateValidationResults(detailed)

(***************************************************************************)
(* Runs handed to the validator                                            *)
(***************************************************************************)
\* a completed iteration (runSingleIteration): page load total and
\* time to first byte under timing, the scenario's phases under phases
Iteration(total, ttfb) ==
  JObject(<<"iteration", "attempt", "timestamp", "phases", "timing">>,
          [iteration |-> Num(1),
           attempt |-> Num(1),
           timestamp |-> JString("2024-01-01T00:00:00.000Z"),
           phases |-> JObject(<<"navigation">>, [navigation |-> Num(100)]),
           timing |-> JObject(<<"total", "ttfb">>, [total |-> total, ttfb |-> ttfb])])

IterTypical == Iteration(Num(370), Num(10))

\* page load far beyond three standard deviations of the example baseline
IterOutlier == Iteration(Num(1959), Num(10))

IterNullLeaf == Iteration(Num(370), JNull)

IterUndefinedLeaf == Iteration(Num(370), Undef)

\* the record runIterationWithRetry returns when every attempt failed
IterFailed ==
  JObject(<<"iteration", "error", "failed", "timestamp">>,
          [iteration |-> Num(1),
           error |-> JString("page.goto: Timeout 30000ms exceeded"),
           failed |-> JBoolean("true"),
           timestamp |-> JString("2024-01-01T00:00:00.000Z")])

StatCv15 == StatsRecord(Num(20), Num(3), 10)

StatCv20 == StatsRecord(Num(10), Num(2), 10)

StatCv25 == StatsRecord(Num(20), Num(5), 10)

\* the statistics object of a scenario with valid of total iterations valid
ScenarioStatistics(metrics, valid, total) ==
  metrics @@ [validRuns |-> Num(valid),
              totalRuns |-> Num(total),
              successRate |-> FMul(FDiv(Num(valid), Num(total)), Num(100))]

MetricsReliable ==
  [m \in {"timing.total", "timing.ttfb"} |->
     IF m = "timing.total" THEN ExampleBaseline ELSE StatA]

MetricsUnstable ==
  [m \in {"timing.total", "timing.ttfb"} |->
     IF m = "timing.total" THEN ExampleComparison ELSE StatCv20]

MetricsMixed ==
  [m \in Range(MetricNames) |->
     IF m = "timing.total" THEN StatCv25
     ELSE IF m = "timing.ttfb" THEN StatCv15 ELSE StatNoisy]

\* a statistics entry that is null
MetricsNullEntry ==
  [m \in {"timing.total", "timing.ttfb"} |->
     IF m = "timing.total" THEN ExampleBaseline ELSE JNull]

\* what calculateScenarioStatistics returns when no iteration is valid
StatisticsNoValidIterations ==
  [error |-> JString("No valid iterations"), totalRuns |-> Num(3)]

ScenarioResult(iterations, statistics) ==
  [iterations |-> iterations, statistics |-> statistics]

ValidatedScenarios ==
  { ScenarioResult(<<IterTypical, IterTypical, IterTypical>>,
                   ScenarioStatistics(MetricsReliable, 10, 10)),
    ScenarioResult(<<IterTypical, IterTypical, IterOutlier, IterTypical>>,
                   ScenarioStatistics(MetricsReliable, 10, 10)),
    ScenarioResult(<<IterTypical, IterTypical, IterNullLeaf>>,
                   ScenarioStatistics(MetricsReliable, 19, 20)),
    ScenarioResult(<<IterUndefinedLeaf, IterTypical, IterTypical>>,
                   ScenarioStatistics(MetricsReliable, 10, 10)),
    ScenarioResult(<<IterTypical, IterFailed, IterTypical, IterTypical, IterTypical>>,
                   ScenarioStatistics(MetricsReliable, 4, 5)),
    ScenarioResult(<<IterTypical, IterTypical, IterTypical>>,
                   ScenarioStatistics(MetricsUnstable, 799, 1000)),
    ScenarioResult(<<IterTypical, IterTypical, IterTypical>>,
                   ScenarioStatistics(MetricsReliable, 799, 1000)),
    ScenarioResult(<<IterTypical, IterTypical, IterTypical>>,
                   ScenarioStatistics(MetricsMixed, 949, 1000)),
    ScenarioResult(<<IterFailed, IterFailed, IterFailed>>, StatisticsNoValidIterations),
    ScenarioResult(<<IterFailed, IterTypical, IterTypical, IterTypical, IterTypical,
                     IterTypical, IterTypical, IterTypical, IterTypical, IterTypical>>,
                   ScenarioStatistics(MetricsReliable, 9, 10)),
    ScenarioResult(<<IterTypical, IterTypical>>,
                   ScenarioStatistics(MetricsReliable, 2, 2)),
    ScenarioResult(<<IterTypical, IterTypical, IterTypical>>,
                   ScenarioStatistics(MetricsNullEntry, 10, 10)),
    [statistics |-> ScenarioStatistics(MetricsMixed, 10, 10)],
    [error |-> "Scenario not found", iterations |-> <<>>] }

SteadyScenario ==
  ScenarioResult(<<IterTypical, IterTypical, IterTypical>>,
                 ScenarioStatistics(MetricsReliable, 10, 10))

\* infrastructure metadata with the fields the validator reads
InfraHealthy ==
  [cdn |-> [detected |-> "true", provider |-> "Cloudflare"],
   compression |-> [enabled |-> "true", algorithm |-> "gzip", ratio |-> Fin(40, 100),
                    effectiveness |-> "good"],
   protocols |-> [http2Support |-> "true", http3Support |-> "false"],
   security |-> [score |-> Num(80), headers |-> [hsts |-> "max-age=31536000", csp |-> "null"]],
   caching |-> [strategy |-> "immutable", effectiveness |-> Num(80)]]

InfraPoor ==
  [cdn |-> [detected |-> "false", provider |-> "null"],
   compression |-> [enabled |-> "true", algorithm |-> "br", ratio |-> Fin(80, 100),
                    effectiveness |-> "poor"],
   protocols |-> [http2Support |-> "false", http3Support |-> "false"],
   security |-> [score |-> Num(65), headers |-> [hsts |-> "null", csp |-> "null"]],
   caching |-> [strategy |-> "none", effectiveness |-> Num(60)]]

\* what analyze() returns for an environment with the healthy metadata
InfraAnalysisHealthy ==
  [environment |-> "production", success |-> "true", infrastructure |-> InfraHealthy]

\* the scenario maps of an environment: one scenario, two, or all four
ValidatedScenarioMaps ==
  UNION { { [n \in {"cold-start"} |-> sc],
            [n \in {"cold-start", "warm-start"} |->
               IF n = "cold-start" THEN sc ELSE SteadyScenario],
            [n \in Range(expectedScenarios) |-> sc] } : sc \in ValidatedScenarios }

\* environment results (runEnvironmentTests)
EnvironmentResults ==
  {[environment |-> [name |-> "production"], scenarios |-> scs] :
     scs \in ValidatedScenarioMaps}
  \cup {[environment |-> [name |-> "production"], scenarios |-> scs, infrastructure |-> inf] :
          scs \in ValidatedScenarioMaps,
          inf \in {InfraHealthy, InfraPoor, InfraAnalysis, InfraAnalysisHealthy}}
  \cup {[environment |-> [name |-> "production"], scenarios |-> EmptyObject,
         infrastructure |-> InfraAnalysis, error |-> "browserType.launch: failed"]}

SecondEnvironmentResults ==
  {[environment |-> [name |-> "staging"],
    scenarios |-> [n \in Range(expectedScenarios) |-> SteadyScenario],
    infrastructure |-> inf] : inf \in {InfraHealthy, InfraPoor}}

\* metadata.duration of a run, in milliseconds
Durations == {Num(1000), Num(200000), Num(400000)}

\* the result sets validateTestRun is given: one environment, two
\* environments in either insertion order, and sets without the results map
Runs ==
  {[metadata |-> [duration |-> Num(1000)],
    results |-> [keys |-> <<"production">>, at |-> [e \in {"production"} |-> env]]] :
     env \in EnvironmentResults}
  \cup {[metadata |-> [duration |-> d],
         results |-> [keys |-> keys,
                      at |-> [e \in {"production", "staging"} |->
                                IF e = "production" THEN env ELSE second]]] :
          d \in Durations,
          keys \in {<<"production", "staging">>, <<"staging", "production">>},
          env \in EnvironmentResults,
          second \in SecondEnvironmentResults}
  \cup {[metadata |-> [duration |-> d]] : d \in Durations}
  \cup {EmptyObject, [results |-> [keys |-> <<>>, at |-> EmptyObject]]}

InitValidate ==
  /\ pc = "ready"
  /\ op = "validateTestRun"
  /\ baseline \in Runs
  /\ comparison = None
  /\ result = None
  /\ clock = 0
  /\ history = <<>>

\* await validation.validateTestRun(results)
ValidateTestRun ==
  /\ pc = "ready"
  /\ op = "validateTestRun"
  /\ result' = validateTestRun(clock, baseline)
  /\ pc' = "done"
  /\ UNCHANGED <<op, baseline, comparison, clock, history>>

NextValidate == ValidateTestRun

\* calls of validateTestRun
SpecValidate == InitValidate /\ [][NextValidate]_vars

(***************************************************************************)
(* Properties of the run validator                                         *)
(***************************************************************************)
\* validateTestRun returned a report after running its five checks
Completed ==
  /\ pc = "done"
  /\ op = "validateTestRun"
  /\ ~Has(result, "error")
  /\ DOMAIN result.detailed = Range(Sections)

RECURSIVE Sum(_)
Sum(numbers) == IF numbers = <<>> THEN 0 ELSE Head(numbers) + Sum(Tail(numbers))

SumOver(seq, size(_)) == Sum([i \in 1..Len(seq) |-> size(seq[i])])

\* C15: when validateTestRun completes its five checks, score is
\* 100 - 10 * totalIssues - 5 * totalWarnings clamped to [0, 100], the totals
\* being summed over the five sub-reports; passed is the conjunction of the
\* five passed flags; and the top-level issues and warnings are the
\* concatenations of the sub-reports' lists.
C15_ScoreAndPassedAggregate ==
  Completed =>
    LET d == result.detailed
        totalIssues == SumOver(Sections, LAMBDA n : Len(d[n].issues))
        totalWarnings == SumOver(Sections, LAMBDA n : Len(d[n].warnings))
    IN  /\ result.score = Min(100, Max(0, 100 - 10 * totalIssues - 5 * totalWarnings))
        /\ result.passed = (/\ d.execution.passed /\ d.statistics.passed
                            /\ d.dataQuality.passed /\ d.infrastructure.passed
                            /\ d.coverage.passed)
        /\ result.issues = d.execution.issues \o d.statistics.issues \o d.dataQuality.issues
                           \o d.infrastructure.issues \o d.coverage.issues
        /\ result.warnings = d.execution.warnings \o d.statistics.warnings
                             \o d.dataQuality.warnings \o d.infrastructure.warnings
                             \o d.coverage.warnings

\* C15 witness: a report whose deductions exceed 100, so that the clamp
\* acts, with issues from several sub-reports
C15_Witness ==
  /\ Completed
  /\ 10 * Len(result.issues) + 5 * Len(result.warnings) > 100
  /\ result.score = 0
  /\ result.detailed.statistics.issues # <<>>
  /\ result.detailed.infrastructure.issues # <<>>
  /\ result.detailed.coverage.passed

\* number of items of a list for one environment, scenario and metric
ItemsFor(list, type, slot) ==
  Count(list, LAMBDA x : /\ x.type = type
                         /\ x.environment = slot.environment
                         /\ x.scenario = slot.scenario
                         /\ x.metric = slot.metric)

\* C16: in validateStatistics a metric with cv > 20 sets passed = false and
\* adds exactly one high_variability issue for its environment, scenario
\* and metric; a metric with 10 < cv <= 20 adds exactly one
\* moderate_variability warning and no issue; a metric with cv <= 10 adds
\* neither and counts as reliable; total = reliable + unstable + number of
\* moderate_variability warnings.
C16_VariabilityClasses ==
  (Completed /\ Has(baseline, "results")) =>
    LET st == result.detailed.statistics
        slots == StatisticsSlots(baseline)
        moderate == Count(st.warnings, LAMBDA w : w.type = "moderate_variability")
    IN  /\ \A i \in 1..Len(slots) :
             LET cv == slots[i].stats.cv
                 high == ItemsFor(st.issues, "high_variability", slots[i])
                 mod == ItemsFor(st.warnings, "moderate_variability", slots[i])
             IN  /\ FGt(cv, Num(20)) => (high = 1 /\ mod = 0 /\ ~st.passed)
                 /\ (FGt(cv, Num(10)) /\ FLe(cv, Num(20))) => (high = 0 /\ mod = 1)
                 /\ FLe(cv, Num(10)) => (high = 0 /\ mod = 0)
        /\ st.metrics.total = Len(slots)
        /\ st.metrics.unstable = Count(slots, LAMBDA x : FGt(x.stats.cv, Num(20)))
        /\ st.metrics.reliable = Count(slots, LAMBDA x : FLe(x.stats.cv, Num(10)))
        /\ st.metrics.total = st.metrics.reliable + st.metrics.unstable + moderate

\* C16 witness: a validated run with a metric at cv = 20 exactly, one above
\* 20 and one at cv = 10 exactly
C16_Witness ==
  /\ Completed
  /\ Has(baseline, "results")
  /\ LET slots == StatisticsSlots(baseline)
     IN  /\ \E i \in 1..Len(slots) : slots[i].stats.cv = Num(20)
         /\ \E i \in 1..Len(slots) : FGt(slots[i].stats.cv, Num(20))
         /\ \E i \in 1..Len(slots) : slots[i].stats.cv = Num(10)
  /\ result.detailed.statistics.metrics.unstable > 0
  /\ result.detailed.statistics.metrics.reliable > 0

\* the scenarios of the validated run that carry a success rate
SuccessRateSlots ==
  SelectSeq(ScenarioSlots(baseline, "statistics"),
            LAMBDA x : Has(x.value.statistics, "successRate"))

LowSuccessRateIssues(list, slot, severities) ==
  Count(list, LAMBDA x : /\ x.type = "low_success_rate"
                         /\ x.environment = slot.environment
                         /\ x.scenario = slot.scenario
                         /\ x.severity \in severities)

\* C17: a scenario success rate strictly below 80 sets the statistics
\* sub-report and the run to passed = false with a low_success_rate issue of
\* severity error; a rate in [80, 95) adds a low_success_rate issue of
\* severity warning and does not by itself set passed = false; a rate of 95
\* or more adds nothing.
C17_SuccessRateBoundaries ==
  (Completed /\ Has(baseline, "results")) =>
    LET st == result.detailed.statistics
        slots == SuccessRateSlots
        rate(i) == slots[i].value.statistics.successRate
    IN  /\ \A i \in 1..Len(slots) :
             /\ FLt(rate(i), Num(80)) =>
                  /\ LowSuccessRateIssues(st.issues, slots[i], {"error"}) = 1
                  /\ LowSuccessRateIssues(st.issues, slots[i], {"warning"}) = 0
                  /\ ~st.passed
                  /\ ~result.passed
             /\ (~FLt(rate(i), Num(80)) /\ FLt(rate(i), Num(95))) =>
                  /\ LowSuccessRateIssues(st.issues, slots[i], {"warning"}) = 1
                  /\ LowSuccessRateIssues(st.issues, slots[i], {"error"}) = 0
             /\ ~FLt(rate(i), Num(95)) =>
                  LowSuccessRateIssues(st.issues, slots[i], {"error", "warning"}) = 0
        /\ st.passed <=>
             /\ \A i \in 1..Len(slots) : ~FLt(rate(i), Num(80))
             /\ \A i \in 1..Len(st.issues) : st.issues[i].type # "high_variability"

\* C17 witness: a scenario at exactly 80 whose sub-report still passes
\* although it carries the low_success_rate issue
C17_Witness ==
  /\ Completed
  /\ Has(baseline, "results")
  /\ \E i \in 1..Len(SuccessRateSlots) :
       SuccessRateSlots[i].value.statistics.successRate = Num(80)
  /\ result.detailed.statistics.passed
  /\ \E i \in 1..Len(result.detailed.statistics.issues) :
       /\ result.detailed.statistics.issues[i].type = "low_success_rate"
       /\ result.detailed.statistics.issues[i].severity = "warning"

\* C18: given a result set without the top-level results mapping,
\* validateTestRun fails fast: the outcome carries an error and is not a
\* passing report with score 100.
C18_MissingResultsFailsFast ==
  (pc = "done" /\ op = "validateTestRun" /\ ~Has(baseline, "results")) =>
    /\ Has(result, "error")
    /\ ~(result.passed /\ result.score = 100)

\* the iteration has a metric value more than three standard deviations
\* from the mean of the scenario's statistics record for that metric
HasOutlierValue(iteration, scenario) ==
  /\ Has(scenario, "statistics")
  /\ \E metric \in DOMAIN scenario.statistics :
       ZScoreAbove3(iteration, metric, scenario.statistics[metric])

IterationWarnings(list, type, slot) ==
  Count(list, LAMBDA x : /\ x.type = type
                         /\ x.environment = slot.environment
                         /\ x.scenario = slot.scenario
                         /\ x.iteration = slot.index)

\* C19: in validateDataQuality every non-failed iteration with a metric
\* value x such that |x - mean| / stddev > 3 against the scenario's
\* statistics produces one outlier warning and increments metrics.outliers;
\* iterations without such a value produce none.
C19_OutliersWarned ==
  (Completed /\ Has(baseline, "results")) =>
    LET dq == result.detailed.dataQuality
        slots == SelectSeq(IterationSlots(baseline),
                           LAMBDA x : ~IterationFailed(x.iteration))
    IN  /\ \A i \in 1..Len(slots) :
             IterationWarnings(dq.warnings, "outlier", slots[i])
               = IF HasOutlierValue(slots[i].iteration, slots[i].value) THEN 1 ELSE 0
        /\ dq.metrics.outliers
             = Count(slots, LAMBDA x : HasOutlierValue(x.iteration, x.value))

\* the leaf fields of an object whose value is null or undefined, from the
\* i-th key on
RECURSIVE NullLeaves(_, _)
NullLeaves(obj, i) ==
  IF i > Len(obj.keys) THEN 0
  ELSE LET value == obj.at[obj.keys[i]]
       IN  (IF value.k \in {"null", "undef"} THEN 1
            ELSE IF value.k = "object" THEN NullLeaves(value, 1) ELSE 0)
           + NullLeaves(obj, i + 1)

\* C20: in validateDataQuality every leaf field of a non-failed iteration
\* whose value is null or undefined produces one null_metric warning and
\* increments metrics.nullMetrics.
C20_NullLeavesWarned ==
  (Completed /\ Has(baseline, "results")) =>
    LET dq == result.detailed.dataQuality
        slots == SelectSeq(IterationSlots(baseline),
                           LAMBDA x : ~IterationFailed(x.iteration))
    IN  /\ \A i \in 1..Len(slots) :
             IterationWarnings(dq.warnings, "null_metric", slots[i])
               = NullLeaves(slots[i].iteration, 1)
        /\ dq.metrics.nullMetrics
             = SumOver(slots, LAMBDA x : NullLeaves(x.iteration, 1))

(***************************************************************************)
(* Regression gate (validateAgainstBaseline, createBaseline)               *)
(***************************************************************************)
\* extractBaselineStatistics: environment -> scenario -> statistics object
extractBaselineStatistics(results) ==
  LET envs == {e \in Distinct(Environments(results)) :
                 Has(EnvResult(results, e), "scenarios")}
  IN  [e \in envs |->
         LET scenarios == EnvResult(results, e).scenarios
         IN  [n \in {x \in DOMAIN scenarios : Has(scenarios[x], "statistics")} |->
                scenarios[n].statistics]]

\* extractBaselineInfrastructure: environment -> infrastructure
extractBaselineInfrastructure(results) ==
  [e \in {x \in Distinct(Environments(results)) :
            Has(EnvResult(results, x), "infrastructure")} |->
     EnvResult(results, e).infrastructure]

\* the statistics entries of the current run that validateAgainstBaseline
\* reaches, in visiting order: the environment and the scenario are in the
\* baseline and the scenario has statistics
GateEntries(currentResults, base) ==
  LET slots == ScenarioSlots(currentResults, "statistics")
      known == SelectSeq(slots,
                         LAMBDA x : /\ Has(base.statistics, x.environment)
                                    /\ Has(base.statistics[x.environment], x.scenario))
  IN  Flatten([i \in 1..Len(known) |->
        LET currentStats == known[i].value.statistics
            metrics == Keys(currentStats, StatisticsKeys)
        IN  [j \in 1..Len(metrics) |->
               [environment |-> known[i].environment, scenario |-> known[i].scenario,
                metric |-> metrics[j], stats |-> currentStats[metrics[j]],
                baselineStats |->
                  base.statistics[known[i].environment][known[i].scenario]]]])

\* the entries compared: both sides are statistics records with a mean
GateSlots(currentResults, base) ==
  SelectSeq(GateEntries(currentResults, base),
            LAMBDA x : /\ IsStats(x.stats, "mean")
                       /\ Has(x.baselineStats, x.metric)
                       /\ IsStats(x.baselineStats[x.metric], "mean"))

\* the exception validateAgainstBaseline raises, if any: Object.entries of a
\* missing results map, or .mean of a null statistics entry
GateThrows(currentResults, base) ==
  /\ Has(base, "statistics")
  /\ \/ ~Has(currentResults, "results")
     \/ LET entries == GateEntries(currentResults, base)
        IN  \E i \in 1..Len(entries) :
              "k" \in DOMAIN entries[i].stats /\ entries[i].stats.k = "null"

\* the statistical test of each compared entry
GateTested(slots) ==
  [i \in 1..Len(slots) |->
     [slot |-> slots[i],
      test |-> performStatisticalTest(slots[i].baselineStats[slots[i].metric],
                                      slots[i].stats)]]

\* a significant change with the list it goes to
GateChange(x) ==
  [to |-> IF FGt(x.test.change.percent, Num(5)) THEN "regressions"
          ELSE IF FLt(x.test.change.percent, Num(-5)) THEN "improvements"
          ELSE "changes",
   change |-> [environment |-> x.slot.environment,
               scenario |-> x.slot.scenario,
               metric |-> x.slot.metric,
               changePercent |-> x.test.change.percent,
               significance |-> x.test.significance]]

GateChangesOf(significant) ==
  [i \in 1..Len(significant) |-> GateChange(significant[i])]

\* the significant changes, in visiting order, each with the list it goes to
GateChanges(currentResults, base) ==
  GateChangesOf(SelectSeq(GateTested(GateSlots(currentResults, base)),
                          LAMBDA x : x.test.significance.isSignificant))

ChangesTo(changes, list) ==
  LET sel == SelectSeq(changes, LAMBDA c : c.to = list)
  IN  [i \in 1..Len(sel) |-> sel[i].change]

\* mutant: the score is clamped to [0, 100] after every change
GateScore_ClampedEachStep(changes, score) ==
  LET RECURSIVE Step(_, _)
      Step(i, sc) ==
        IF i > Len(changes) THEN sc
        ELSE Step(i + 1,
                  Max(0, Min(100, IF changes[i].to = "regressions" THEN sc - 15
                                  ELSE IF changes[i].to = "improvements" THEN sc + 5
                                  ELSE sc)))
  IN  Max(0, Min(100, Step(1, score)))

\* validation.score after the changes were visited in order (-15 for a
\* regression, +5 for an improvement), clamped once at the end
GateScore(changes, score) ==
  LET RECURSIVE Step(_, _)
      Step(i, sc) ==
        IF i > Len(changes) THEN sc
        ELSE Step(i + 1,
                  IF changes[i].to = "regressions" THEN sc - 15
                  ELSE IF changes[i].to = "improvements" THEN sc + 5
                  ELSE sc)
  IN  Max(0, Min(100, Step(1, score)))

\* the report of validateAgainstBaseline once the changes were visited
GateReport(changes) ==
  [passed |-> ChangesTo(changes, "regressions") = <<>>,
   regressions |-> ChangesTo(changes, "regressions"),
   improvements |-> ChangesTo(changes, "improvements"),
   changes |-> ChangesTo(changes, "changes"),
   score |-> GateScore(changes, 100)]

\* validateAgainstBaseline(currentResults, baseline); a raised exception is
\* the record [threw |-> message]
validateAgainstBaseline(currentResults, base) ==
  IF ~Has(base, "statistics")
  THEN [passed |-> TRUE, regressions |-> <<>>, improvements |-> <<>>,
        changes |-> <<>>, score |-> 100]
  ELSE IF GateThrows(currentResults, base)
       THEN [threw |-> IF Has(currentResults, "results")
                       THEN "Cannot read properties of null (reading 'mean')"
                       ELSE "Cannot convert undefined or null to object"]
       ELSE GateReport(GateChanges(currentResults, base))

StatFast == StatsRecord(Num(5), Num(1), 10)

MetricsFast ==
  [m \in {"timing.total", "timing.ttfb"} |->
     IF m = "timing.total" THEN StatA ELSE StatFast]

\* an environment result all of whose scenarios have the same statistics
GateEnvironment(names, metrics) ==
  [scenarios |-> [n \in names |->
                    ScenarioResult(<<IterTypical, IterTypical, IterTypical>>,
                                   ScenarioStatistics(metrics, 10, 10))]]

GateScenarioSets == {{"cold-start"}, Range(expectedScenarios)}

\* the current runs handed to validateAgainstBaseline
GateRuns ==
  {[results |-> [keys |-> <<"production">>,
                 at |-> [e \in {"production"} |-> GateEnvironment(names, m)]]] :
     names \in GateScenarioSets,
     m \in {MetricsReliable, MetricsUnstable, MetricsMixed, MetricsFast, MetricsNullEntry}}
  \cup {[results |-> [keys |-> keys,
                      at |-> [e \in {"production", "staging"} |->
                                IF e = "production" THEN GateEnvironment(names, m)
                                ELSE GateEnvironment(names, m2)]]] :
          keys \in {<<"production", "staging">>, <<"staging", "production">>},
          names \in GateScenarioSets,
          m \in {MetricsReliable, MetricsUnstable, MetricsMixed, MetricsFast},
          m2 \in {MetricsReliable, MetricsMixed, MetricsFast}}
  \cup {[metadata |-> [duration |-> Num(1000)]]}

\* the baselines: the statistics createBaseline extracts from a run, a
\* baseline of one environment only, and a file without statistics
GateBaselines ==
  {[name |-> "production",
    statistics |-> [e \in {"production", "staging"} |->
                      [n \in Range(expectedScenarios) |->
                         ScenarioStatistics(IF e = "production" THEN m ELSE m2, 10, 10)]]] :
     m \in {MetricsReliable, MetricsMixed, MetricsFast},
     m2 \in {MetricsReliable, MetricsMixed}}
  \cup {[name |-> "production",
         statistics |-> [e \in {"production"} |->
                           [n \in {"cold-start"} |->
                              ScenarioStatistics(MetricsReliable, 10, 10)]]],
        [name |-> "production"]}

InitGate ==
  /\ pc = "ready"
  /\ op = "validateAgainstBaseline"
  /\ baseline \in GateRuns
  /\ comparison \in GateBaselines
  /\ result = None
  /\ clock = 0
  /\ history = <<>>

\* validation.validateAgainstBaseline(results, baseline): the first
\* argument is the current run, the second the baseline
ValidateAgainstBaseline ==
  /\ pc = "ready"
  /\ op = "validateAgainstBaseline"
  /\ result' = validateAgainstBaseline(baseline, comparison)
  /\ pc' = "done"
  /\ UNCHANGED <<op, baseline, comparison, clock, history>>

NextGate == ValidateAgainstBaseline

\* calls of validateAgainstBaseline
SpecGate == InitGate /\ [][NextGate]_vars

\* validateAgainstBaseline returned a report
GateReturned ==
  pc = "done" /\ op = "validateAgainstBaseline" /\ ~Has(result, "threw")

\* the (environment, scenario, metric) triples on both sides whose change
\* is significant and satisfies test, as a set: no visiting order
GateTriples(test(_)) ==
  IF ~Has(comparison, "statistics") \/ ~Has(baseline, "results") THEN {}
  ELSE LET at == baseline.results.at
       IN  {t \in (DOMAIN at) \X Range(expectedScenarios) \X Range(MetricNames) :
              /\ Has(comparison.statistics, t[1])
              /\ Has(comparison.statistics[t[1]], t[2])
              /\ Has(at[t[1]], "scenarios")
              /\ Has(at[t[1]].scenarios, t[2])
              /\ Has(at[t[1]].scenarios[t[2]], "statistics")
              /\ Has(at[t[1]].scenarios[t[2]].statistics, t[3])
              /\ Has(comparison.statistics[t[1]][t[2]], t[3])
              /\ IsStats(at[t[1]].scenarios[t[2]].statistics[t[3]], "mean")
              /\ IsStats(comparison.statistics[t[1]][t[2]][t[3]], "mean")
              /\ LET r == performStatisticalTest(comparison.statistics[t[1]][t[2]][t[3]],
                                                 at[t[1]].scenarios[t[2]].statistics[t[3]])
                 IN  r.significance.isSignificant /\ test(r.change.percent)}

\* C12: validateAgainstBaseline returns
\* score = clamp(100 - 15 * len(regressions) + 5 * len(improvements), 0, 100)
\* and passed = (len(regressions) = 0), whatever the order in which
\* environments, scenarios and metrics are visited: the two lists hold one
\* entry for each metric of the set of significant changes above 5% and
\* below -5%.
C12_GateScoreAndPassed ==
  GateReturned =>
    LET worse == GateTriples(LAMBDA percent : FGt(percent, Num(5)))
        better == GateTriples(LAMBDA percent : FLt(percent, Num(-5)))
    IN  /\ result.score
             = Min(100, Max(0, 100 - 15 * Len(result.regressions)
                                + 5 * Len(result.improvements)))
        /\ result.passed = (Len(result.regressions) = 0)
        /\ Len(result.regressions) = Cardinality(worse)
        /\ Len(result.improvements) = Cardinality(better)
        /\ {<<x.environment, x.scenario, x.metric>> : x \in Range(result.regressions)} = worse
        /\ {<<x.environment, x.scenario, x.metric>> : x \in Range(result.improvements)} = better

\* C12 witness: staging was visited before production, at least seven
\* regressions take the running score below 0, and improvements follow
C12_Witness ==
  /\ GateReturned
  /\ Has(baseline, "results")
  /\ Environments(baseline) = <<"staging", "production">>
  /\ Len(result.regressions) >= 7
  /\ Len(result.improvements) >= 1
  /\ result.score = 0
  /\ ~result.passed

(***************************************************************************)
(* Baselines (createBaseline) and their files                              *)
(***************************************************************************)
\* the promise an async function returns once its body ran to completion:
\* validateTestRun has no await, so its promise is already fulfilled when
\* the call returns
Promise(value) == [k |-> "promise", state |-> "fulfilled", value |-> value]

IsPromise(v) == "k" \in DOMAIN v /\ v.k = "promise"

\* createBaseline(results, baselineName) at clock reading now: validation is
\* what the call this.validateTestRun(results) evaluates to, a promise; a
\* raised exception is the record [threw |-> message]
createBaseline(now, results, baselineName) ==
  IF ~Has(results, "results")
  THEN [threw |-> "Cannot convert undefined or null to object"]
  ELSE [name |-> baselineName,
        timestamp |-> ISOString(now),
        validation |-> Promise(validateTestRun(now, results)),
        statistics |-> extractBaselineStatistics(results),
        infrastructure |-> extractBaselineInfrastructure(results)]

\* a number as JSON.stringify writes it: NaN and the infinities become null
JsonNumber(v) == IF v.k \in {"nan", "inf"} THEN JNull ELSE v

\* an entry of a statistics object as JSON.stringify writes it
JsonStatisticsEntry(v) ==
  IF "k" \in DOMAIN v
  THEN (IF v.k \in {"fin", "nan", "inf"} THEN JsonNumber(v) ELSE v)
  ELSE [f \in DOMAIN v |-> IF f = "count" THEN v[f] ELSE JsonNumber(v[f])]

\* the entries JSON.stringify writes: a property whose value is undefined
\* is left out
JsonStatistics(statistics) ==
  [m \in {x \in DOMAIN statistics :
            ~("k" \in DOMAIN statistics[x] /\ statistics[x].k = "undef")} |->
     JsonStatisticsEntry(statistics[m])]

\* a validation report as JSON.stringify writes it: strings, booleans,
\* integers and lists of issue records are written as they are
JsonReport(report) == report

\* JSON.stringify(baseline, null, 2): the text, represented by the value it
\* denotes.  A promise has no enumerable property of its own and is written
\* as {}; the infrastructure holds strings, booleans and finite numbers
\* only, which are written as they are.
JSONStringify(b) ==
  [json |->
     [name |-> b.name,
      timestamp |-> b.timestamp,
      validation |-> IF IsPromise(b.validation) THEN EmptyObject
                     ELSE JsonReport(b.validation),
      statistics |-> [e \in DOMAIN b.statistics |->
                        [n \in DOMAIN b.statistics[e] |->
                           JsonStatistics(b.statistics[e][n])]],
      infrastructure |-> b.infrastructure]]

\* JSON.parse(text)
JSONParse(text) == text.json

BaselineNames == {"production"}

\* the runs a baseline is made of
BaselineRuns ==
  {r \in Runs : Has(r, "results") => Len(r.results.keys) = 1}

InitBaseline ==
  /\ pc = "ready"
  /\ op = "createBaseline"
  /\ baseline \in BaselineRuns
  /\ comparison \in BaselineNames
  /\ result = None
  /\ clock = 0
  /\ history = <<>>

\* const baseline = validation.createBaseline(results, options.baseline)
CreateBaseline ==
  /\ pc = "ready"
  /\ op = "createBaseline"
  /\ result' = createBaseline(clock, baseline, comparison)
  /\ pc' = IF Has(result', "threw") THEN "failed" ELSE "created"
  /\ UNCHANGED <<op, baseline, comparison, clock, history>>

\* fs.writeFileSync(baselinePath, JSON.stringify(baseline, null, 2)): the
\* result is the text of the file; the object stays in the history
WriteBaseline ==
  /\ pc = "created"
  /\ op = "createBaseline"
  /\ history' = Append(history, result)
  /\ result' = JSONStringify(result)
  /\ pc' = "written"
  /\ UNCHANGED <<op, baseline, comparison, clock>>

\* JSON.parse(fs.readFileSync(options.baseline, 'utf8')) of a later command
ReadBaseline ==
  /\ pc = "written"
  /\ op = "createBaseline"
  /\ history' = Append(history, result)
  /\ result' = JSONParse(result)
  /\ pc' = "read"
  /\ UNCHANGED <<op, baseline, comparison, clock>>

NextBaseline == CreateBaseline \/ Tick \/ WriteBaseline \/ ReadBaseline

\* a baseline is created, written to its file and read back
SpecBaseline == InitBaseline /\ [][NextBaseline]_vars

\* C14: when the baseline createBaseline returned is serialized, its
\* validation field holds the completed validation report (passed, score,
\* issues, warnings) of the run, so that the name, timestamp, validation
\* report, statistics and infrastructure read back from the file are those
\* of the baseline.
C14_BaselineRoundTrip ==
  /\ (pc = "created" /\ op = "createBaseline") =>
       /\ {"passed", "score", "issues", "warnings"} \subseteq DOMAIN result.validation
       /\ \E t \in 0..MaxClock :
            LET report == validateTestRun(t, baseline)
            IN  /\ result.validation.passed = report.passed
                /\ result.validation.score = report.score
                /\ result.validation.issues = report.issues
                /\ result.validation.warnings = report.warnings
  /\ (pc = "read" /\ op = "createBaseline") =>
       /\ {"passed", "score", "issues", "warnings"} \subseteq DOMAIN result.validation
       /\ result.name = history[1].name
       /\ result.timestamp = history[1].timestamp
       /\ result.validation = history[1].validation
       /\ result.statistics = history[1].statistics
       /\ result.infrastructure = history[1].infrastructure

(***************************************************************************)
(* Command line (PerformanceCLI)                                           *)
(***************************************************************************)
\* an argument of the command line: Flag("strict") is --strict
Flag(text) == [dashes |-> TRUE, text |-> text]

Word(text) == [dashes |-> FALSE, text |-> text]

\* the argument as the string the process received
Raw(arg) == IF arg.dashes THEN "--" \o arg.text ELSE arg.text

\* parseOptions(args): arguments are taken two at a time, the first as the
\* key without its leading dashes and the second, whatever it is, as its
\* value; a key with nothing after it is true.  The value 'true' becomes
\* the boolean, which is the string "true" here; the arguments used are
\* never numeric.
RECURSIVE ParseFrom(_, _, _)
ParseFrom(args, i, options) ==
  IF i > Len(args) THEN options
  ELSE LET key == args[i].text
           value == IF i + 1 <= Len(args) THEN Raw(args[i + 1]) ELSE "true"
       IN  ParseFrom(args, i + 2, (key :> value) @@ options)

parseOptions(args) == ParseFrom(args, 1, EmptyObject)

\* options.name used as a condition
Option(options, name) == Truthy(Str(options, name))

\* process.exit(1) of the catch block of run(): the message is printed and
\* nothing else of the command is kept
Exit1(message) ==
  [exitCode |-> 1, error |-> message, validation |-> None,
   baselineComparison |-> None, comparison |-> None, written |-> None]

\* the command returned, or called process.exit(code) as its last step
Exit(code, validationResult, baselineComparison, compared, written) ==
  [exitCode |-> code, validation |-> validationResult,
   baselineComparison |-> baselineComparison, comparison |-> compared,
   written |-> written]

\* the end of validateResults: the exit code follows the validation report
ValidateExit(options, validationResult, baselineComparison) ==
  IF Has(baselineComparison, "threw")
  THEN Exit1(baselineComparison.threw)
  ELSE Exit(IF ~validationResult.passed /\ Option(options, "strict") THEN 1 ELSE 0,
            validationResult, baselineComparison, None, None)

\* validateResults(options): file is the content of options.file and
\* baselineFile that of options.baseline
validateResults(now, options, file, baselineFile) ==
  IF ~Option(options, "file") THEN Exit1("--file path is required")
  ELSE ValidateExit(options, validateTestRun(now, file),
                    IF Option(options, "baseline")
                    THEN validateAgainstBaseline(file, baselineFile)
                    ELSE None)

\* the end of runTests: the baseline file is written, the exit code follows
\* the validation report
RunExit(options, validationResult, created) ==
  IF Has(created, "threw")
  THEN Exit1(created.threw)
  ELSE Exit(IF ~validationResult.passed /\ Option(options, "strict") THEN 1 ELSE 0,
            validationResult, None, None,
            IF created = None THEN None ELSE JSONStringify(created))

\* runTests(options): results is what runTestSuite returned; with
\* --baseline NAME the run is stored as the baseline NAME, no stored
\* baseline is read
runTests(now, options, results) ==
  RunExit(options, validateTestRun(now, results),
          IF Option(options, "baseline")
          THEN createBaseline(now, results, options.baseline)
          ELSE None)

\* results.results?.[Object.keys(results.results)[0]] || results
FirstEnvironment(file) ==
  IF Has(file, "results") /\ Len(file.results.keys) > 0
  THEN file.results.at[file.results.keys[1]]
  ELSE file

\* the end of compareResults: printComparison reads the lists of the
\* summary, which a comparison that ended in an error does not have; the
\* exit code follows the regressions
CompareExit(options, compared) ==
  IF ~Has(compared.summary, "significantChanges")
  THEN Exit1("Cannot read properties of undefined (reading 'length')")
  ELSE Exit(IF Len(compared.summary.regressions) > 0 /\ Option(options, "strict")
            THEN 1 ELSE 0,
            None, None, compared, None)

\* compareResults(options)
compareResults(now, options, baselineFile, comparisonFile) ==
  IF ~Option(options, "baseline") \/ ~Option(options, "comparison")
  THEN Exit1("--baseline and --comparison paths are required")
  ELSE CompareExit(options,
                   compareEnvironmentsAt(now, FirstEnvironment(baselineFile),
                                         FirstEnvironment(comparisonFile)))

ValidateLines ==
  {<<Flag("file"), Word("F")>>,
   <<Flag("file"), Word("F"), Flag("strict")>>,
   <<Flag("file"), Word("F"), Flag("strict"), Flag("baseline"), Word("B")>>}

ValidateBaselineLines ==
  {<<Flag("file"), Word("F"), Flag("baseline"), Word("B")>>,
   <<Flag("file"), Word("F"), Flag("baseline"), Word("B"), Flag("strict")>>}

RunLines ==
  {<<>>, <<Flag("strict")>>,
   <<Flag("baseline"), Word("production")>>,
   <<Flag("baseline"), Word("production"), Flag("strict")>>}

CompareLines ==
  {<<Flag("baseline"), Word("B"), Flag("comparison"), Word("C")>>,
   <<Flag("baseline"), Word("B"), Flag("comparison"), Word("C"), Flag("strict")>>}

\* result files handed to compare: a report of generateFinalReport, or the
\* results of one environment on their own
CompareFiles ==
  {[results |-> [keys |-> <<"production">>, at |-> [e \in {"production"} |-> env]]] :
     env \in TwiceInputs}
  \cup {[scenarios |-> [n \in {"cold-start"} |-> sc]] : sc \in ScenarioInputs}

\* the runs runTestSuite returns: generateFinalReport always sets results
SuiteRuns == {r \in BaselineRuns : Has(r, "results")}

\* node <cli> <command> <args>: baseline is the content of the file named
\* by --baseline, comparison the content of the file named by --file or
\* --comparison or, for run, what the test suite returned
InitCli ==
  /\ pc = "ready"
  /\ result = None
  /\ clock = 0
  /\ history = <<>>
  /\ \/ /\ op \in {[command |-> "validate", args |-> a] : a \in ValidateLines}
        /\ baseline = None
        /\ comparison \in GateRuns
     \/ /\ op \in {[command |-> "validate", args |-> a] : a \in ValidateBaselineLines}
        /\ baseline \in GateBaselines
        /\ comparison \in GateRuns
     \/ /\ op \in {[command |-> "run", args |-> a] : a \in RunLines}
        /\ baseline = None
        /\ comparison \in SuiteRuns
     \/ /\ op \in {[command |-> "compare", args |-> a] : a \in CompareLines}
        /\ baseline \in CompareFiles
        /\ comparison \in CompareFiles
     \/ /\ op = [command |-> "compare", args |-> <<Flag("strict")>>]
        /\ baseline = None
        /\ comparison = None

IsCommand(name) == pc = "ready" /\ "command" \in DOMAIN op /\ op.command = name

\* validate
ValidateResults ==
  /\ IsCommand("validate")
  /\ result' = validateResults(clock, parseOptions(op.args), comparison, baseline)
  /\ pc' = "exited"
  /\ UNCHANGED <<op, baseline, comparison, clock, history>>

\* run
RunTests ==
  /\ IsCommand("run")
  /\ result' = runTests(clock, parseOptions(op.args), comparison)
  /\ pc' = "exited"
  /\ UNCHANGED <<op, baseline, comparison, clock, history>>

\* compare
CompareResults ==
  /\ IsCommand("compare")
  /\ result' = compareResults(clock, parseOptions(op.args), baseline, comparison)
  /\ pc' = "exited"
  /\ UNCHANGED <<op, baseline, comparison, clock, history>>

NextCli == ValidateResults \/ RunTests \/ CompareResults

\* one invocation of the command line
SpecCli == InitCli /\ [][NextCli]_vars

Exited == pc = "exited" /\ "exitCode" \in DOMAIN result

\* --strict is among the arguments
StrictGiven == \E i \in 1..Len(op.args) : op.args[i] = Flag("strict")

\* the command ran to its end: no exception, no usage error
Ran == Exited /\ ~Has(result, "error")

ValidationFailed == result.validation # None /\ ~result.validation.passed

\* the baseline comparison of the command reports regressions
RegressionsReported ==
  \/ result.baselineComparison # None /\ result.baselineComparison.regressions # <<>>
  \/ result.comparison # None /\ Len(result.comparison.summary.regressions) > 0

\* C13: with --strict a command whose validation report has passed = false
\* or whose baseline comparison reports regressions exits with a non-zero
\* code; without --strict a command that ran to its end exits with 0.
C13_StrictExitCodes ==
  Ran => /\ StrictGiven /\ (ValidationFailed \/ RegressionsReported)
              => result.exitCode # 0
         /\ ~StrictGiven => result.exitCode = 0

\* what the commands do: the strict exit follows the validation report for
\* validate and run and the regressions for compare
C13_StrictExitCodesPerCommand ==
  Ran => result.exitCode =
           IF /\ StrictGiven
              /\ \/ op.command \in {"validate", "run"} /\ ValidationFailed
                 \/ op.command = "compare" /\ RegressionsReported
           THEN 1 ELSE 0

(***************************************************************************)
(* Data quality and infrastructure sub-reports                             *)
(***************************************************************************)
\* the iterations of the validated run and those among them that failed
VisitedIterations == Len(IterationSlots(baseline))

FailedIterations == Count(IterationSlots(baseline), LAMBDA x : IterationFailed(x.iteration))

TypeCount(list, type) == Count(list, LAMBDA x : x.type = type)

\* the parts of C21 that do not depend on the rate: one failed_iteration
\* warning for each failed iteration, and the counters add up
DataQualityCounts(dq) ==
  LET slots == IterationSlots(baseline)
  IN  /\ TypeCount(dq.warnings, "failed_iteration") = FailedIterations
      /\ \A i \in 1..Len(slots) :
           IterationWarnings(dq.warnings, "failed_iteration", slots[i])
             = IF IterationFailed(slots[i].iteration) THEN 1 ELSE 0
      /\ dq.metrics.totalIterations = VisitedIterations
      /\ dq.metrics.validIterations + FailedIterations = dq.metrics.totalIterations
      /\ TypeCount(dq.issues, "low_data_quality") = Len(dq.issues)

\* passed is false with one low_data_quality error exactly when low holds,
\* and there is one moderate_data_quality warning exactly when moderate holds
DataQualityClasses(dq, low, moderate) ==
  /\ dq.passed = ~low
  /\ TypeCount(dq.issues, "low_data_quality") = (IF low THEN 1 ELSE 0)
  /\ \A i \in 1..Len(dq.issues) : dq.issues[i].severity = "error"
  /\ TypeCount(dq.warnings, "moderate_data_quality") = (IF moderate THEN 1 ELSE 0)

\* C21 as stated: validateDataQuality sets passed = false with one
\* low_data_quality error exactly when the share of iterations without
\* error/failed markers is below 80%, adds one moderate_data_quality warning
\* exactly when the share is in [80%, 90%), and adds one failed_iteration
\* warning for each failed iteration, with validIterations + failed
\* iterations = totalIterations.
C21_DataQualityRate ==
  (Completed /\ Has(baseline, "results")) =>
    LET valid == VisitedIterations - FailedIterations
    IN  /\ DataQualityCounts(result.detailed.dataQuality)
        /\ DataQualityClasses(result.detailed.dataQuality,
                              100 * valid < 80 * VisitedIterations,
                              /\ 100 * valid >= 80 * VisitedIterations
                              /\ 100 * valid < 90 * VisitedIterations)

\* C21 amended: the rate of a run whose results hold no iteration at all is
\* taken as 0, so such a run also gets the low_data_quality error and
\* passed = false; with at least one iteration the classes are those of the
\* claim.
C21_DataQualityRateOrNoIterations ==
  (Completed /\ Has(baseline, "results")) =>
    LET valid == VisitedIterations - FailedIterations
    IN  /\ DataQualityCounts(result.detailed.dataQuality)
        /\ DataQualityClasses(result.detailed.dataQuality,
                              \/ VisitedIterations = 0
                              \/ 100 * valid < 80 * VisitedIterations,
                              /\ VisitedIterations > 0
                              /\ 100 * valid >= 80 * VisitedIterations
                              /\ 100 * valid < 90 * VisitedIterations)

\* C21 witness: a run at exactly 80% with failed iterations, which passes
\* the data quality check with the moderate_data_quality warning
C21_Witness ==
  /\ Completed
  /\ Has(baseline, "results")
  /\ FailedIterations > 0
  /\ 100 * (VisitedIterations - FailedIterations) = 80 * VisitedIterations
  /\ result.detailed.dataQuality.passed
  /\ TypeCount(result.detailed.dataQuality.warnings, "moderate_data_quality") = 1

\* the categories of an environment's infrastructure metadata: analyze()
\* returns them under its infrastructure property
Categories(infra) == IF Has(infra, "infrastructure") THEN infra.infrastructure ELSE infra

\* the metadata says compression is off, or gives a security score below 70
FailsInfrastructure(infra) ==
  \/ ~Truthy(Opt(Categories(infra), "compression", "enabled"))
  \/ /\ Has(Categories(infra), "security")
     /\ Has(Categories(infra).security, "score")
     /\ FLt(Categories(infra).security.score, Num(70))

\* C22: the infrastructure sub-report has passed = false exactly when some
\* environment with infrastructure metadata has no compression or a
\* security score below 70; missing CDN, missing HTTP/2 and differences
\* between environments only add warnings.
C22_InfrastructurePassed ==
  (Completed /\ Has(baseline, "results")) =>
    LET envs == Environments(baseline)
        inf == result.detailed.infrastructure
    IN  /\ inf.passed =
             ~(\E i \in 1..Len(envs) :
                 /\ Has(EnvResult(baseline, envs[i]), "infrastructure")
                 /\ FailsInfrastructure(EnvResult(baseline, envs[i]).infrastructure))
        /\ \A i \in 1..Len(inf.warnings) : inf.warnings[i].severity = "warning"
        /\ \A i \in 1..Len(inf.issues) :
             inf.issues[i].type \in {"no_compression", "low_security_score"}

(***************************************************************************)
(* Test suite: reduction of samples (calculateStatistics)                  *)
(***************************************************************************)
MaxLen == 7

\* floor of the square root of a natural number
RECURSIVE ISqrt(_)
ISqrt(n) ==
  IF n < 2 THEN n
  ELSE LET s == 2 * ISqrt(n \div 4)
       IN  IF (s + 1) * (s + 1) <= n THEN s + 1 ELSE s

\* the next decimal digits of a square root, by the long-hand method: root
\* is the root so far and rem what is left of the radicand
RECURSIVE RootDigits(_, _, _)
RootDigits(root, rem, digits) ==
  IF digits = 0 THEN root
  ELSE LET d == CHOOSE x \in 0..9 :
                  /\ (20 * root + x) * x <= 100 * rem
                  /\ x < 9 => (20 * root + x + 1) * (x + 1) > 100 * rem
       IN  RootDigits(10 * root + d, 100 * rem - (20 * root + d) * d, digits - 1)

\* floor(10^digits * Math.sqrt(n)) for a natural number n
ScaledRoot(n, digits) == RootDigits(ISqrt(n), n - ISqrt(n) * ISqrt(n), digits)

\* parseFloat((Math.sqrt(n) / divisor).toFixed(digits)) for a natural number
\* n and a positive whole divisor
RootOverToFixed(n, divisor, digits) ==
  Fin((ScaledRoot(4 * n, digits) + divisor) \div (2 * divisor), Pow10(digits))

\* [...values].sort((a, b) => a - b) of whole numbers
RECURSIVE Insert(_, _)
Insert(sorted, x) ==
  IF sorted = <<>> THEN <<x>>
  ELSE IF x < Head(sorted) THEN <<x>> \o sorted
  ELSE <<Head(sorted)>> \o Insert(Tail(sorted), x)

RECURSIVE Sort(_)
Sort(values) ==
  IF values = <<>> THEN <<>>
  ELSE Insert(Sort(SubSeq(values, 1, Len(values) - 1)), values[Len(values)])

\* Math.floor(len * q) for the quantile q = percent / 100
FloorOf(len, percent) == (len * percent) \div 100

\* mutant: the percentile index is rounded up
Percentile_Ceiling(sorted, percent) ==
  sorted[Min(Len(sorted) - 1, (Len(sorted) * percent + 99) \div 100) + 1]

\* sorted[Math.floor(len * q)]; the sequence is indexed from 1 here
Percentile(sorted, percent) == sorted[FloorOf(Len(sorted), percent) + 1]

\* sum of the squares of whole numbers
SumOfSquares(numbers) == Sum([i \in 1..Len(numbers) |-> numbers[i] * numbers[i]])

\* calculateStatistics(values) for samples that are whole numbers, given as
\* number records.  With sum the sum of the samples and len their number,
\* the variance sum((x - mean)^2) / len is dev / len^2 for the whole number
\* dev = len * sum(x^2) - sum^2, so stddev is sqrt(dev) / len and, for a
\* positive mean, cv is 100 * sqrt(dev) / sum.
SummedStatistics(sorted, len, sum, dev) ==
  [count |-> len,
   min |-> Num(sorted[1]),
   max |-> Num(sorted[len]),
   mean |-> ToFixed(Fin(sum, len), 2),
   median |-> IF len % 2 = 0
              THEN Fin(sorted[len \div 2] + sorted[(len \div 2) + 1], 2)
              ELSE Num(sorted[(len \div 2) + 1]),
   stddev |-> RootOverToFixed(dev, len, 2),
   cv |-> IF sum > 0 THEN FMul(RootOverToFixed(dev, sum, 4), Num(100)) ELSE Num(0),
   p75 |-> Num(Percentile(sorted, 75)),
   p90 |-> Num(Percentile(sorted, 90)),
   p95 |-> Num(Percentile(sorted, 95)),
   p99 |-> Num(Percentile(sorted, 99))]

SortedStatistics(sorted, sum) ==
  SummedStatistics(sorted, Len(sorted), sum, Len(sorted) * SumOfSquares(sorted) - sum * sum)

calculateStatistics(values) ==
  IF Len(values) = 0 THEN JNull
  ELSE SortedStatistics(Sort([i \in 1..Len(values) |-> values[i].n]),
                        Sum([i \in 1..Len(values) |-> values[i].n]))

\* the values of the samples
SampleValues == {-2, 0, 3, 7}

\* a sample of 20 and one of 100 values, largest first, in which the four
\* percentiles fall on different values
LongSamples ==
  { [i \in 1..20 |-> IF i <= 1 THEN 7 ELSE IF i <= 2 THEN 3 ELSE IF i <= 5 THEN 2
                     ELSE IF i <= 10 THEN 1 ELSE 0],
    [i \in 1..100 |-> IF i <= 1 THEN 5 ELSE IF i <= 5 THEN 4 ELSE IF i <= 10 THEN 3
                      ELSE IF i <= 25 THEN 2 ELSE 1] }

\* the sample sequences handed to calculateStatistics
Samples ==
  {[i \in 1..Len(s) |-> Num(s[i])] :
     s \in UNION {[1..n -> SampleValues] : n \in 0..MaxLen} \cup LongSamples}

InitStatistics ==
  /\ pc = "ready"
  /\ op = "calculateStatistics"
  /\ baseline \in Samples
  /\ comparison = None
  /\ result = None
  /\ clock = 0
  /\ history = <<>>

\* stats[metricName] = this.calculateStatistics(values)
CalculateStatistics ==
  /\ pc = "ready"
  /\ op = "calculateStatistics"
  /\ result' = calculateStatistics(baseline)
  /\ pc' = "done"
  /\ UNCHANGED <<op, baseline, comparison, clock, history>>

NextStatistics == CalculateStatistics

SpecStatistics == InitStatistics /\ [][NextStatistics]_vars

Reduced == pc = "done" /\ op = "calculateStatistics"

\* the number of samples that are at most x
AtMost(x) == Cardinality({i \in 1..Len(baseline) : FLe(baseline[i], x)})

\* the number of samples that are below x
Below(x) == Cardinality({i \in 1..Len(baseline) : FLt(baseline[i], x)})

\* x is the value at index floor(len * percent / 100), counted from 0, of
\* the samples in ascending order
IsOrderStatistic(x, percent) ==
  /\ \E i \in 1..Len(baseline) : baseline[i] = x
  /\ Below(x) <= FloorOf(Len(baseline), percent)
  /\ FloorOf(Len(baseline), percent) < AtMost(x)

\* C23: for every non-empty sequence of finite numbers calculateStatistics
\* returns a record with count = length of the sequence and
\* min <= p75 <= p90 <= p95 <= p99 <= max, each percentile being the sample
\* at index floor(n * q) of the sorted samples, an index within [0, n - 1];
\* for an empty sequence it returns null, not a record.
C23_CountAndPercentiles ==
  Reduced =>
    IF Len(baseline) = 0 THEN result = JNull
    ELSE /\ result # JNull
         /\ result.count = Len(baseline)
         /\ \A q \in {75, 90, 95, 99} :
              /\ FloorOf(Len(baseline), q) >= 0
              /\ FloorOf(Len(baseline), q) <= Len(baseline) - 1
         /\ IsOrderStatistic(result.min, 0)
         /\ AtMost(result.max) = Len(baseline)
         /\ \E i \in 1..Len(baseline) : baseline[i] = result.max
         /\ IsOrderStatistic(result.p75, 75)
         /\ IsOrderStatistic(result.p90, 90)
         /\ IsOrderStatistic(result.p95, 95)
         /\ IsOrderStatistic(result.p99, 99)
         /\ FLe(result.min, result.p75)
         /\ FLe(result.p75, result.p90)
         /\ FLe(result.p90, result.p95)
         /\ FLe(result.p95, result.p99)
         /\ FLe(result.p99, result.max)

\* C23 witness: a sample of 100 values given in descending order whose
\* four percentiles are strictly increasing, the last one being the maximum
C23_Witness ==
  /\ Reduced
  /\ Len(baseline) = 100
  /\ FLt(result.min, result.p75)
  /\ FLt(result.p75, result.p90)
  /\ FLt(result.p90, result.p95)
  /\ FLt(result.p95, result.p99)
  /\ result.p99 = result.max

(***************************************************************************)
(* Test suite: flattening of iteration records (extractMetrics)            *)
(***************************************************************************)
MaxIterations == 3

JArray(items) == [k |-> "array", items |-> items]

\* if (!metrics[fullKey]) metrics[fullKey] = []; metrics[fullKey].push(value)
PushMetric(metrics, fullKey, value) ==
  IF fullKey \in DOMAIN metrics.at
  THEN [metrics EXCEPT !.at[fullKey] = Append(@, value)]
  ELSE [keys |-> Append(metrics.keys, fullKey),
        at |-> (fullKey :> <<value>>) @@ metrics.at]

\* typeof value === 'number' && !isNaN(value)
Appended(value) == TypeOf(value) = "number" /\ ~IsNaN(value)

\* flattenObject(obj, metrics, prefix), from the i-th entry of obj on; the
\* result is the metrics object after the call
RECURSIVE flattenObject(_, _, _, _)
flattenObject(obj, metrics, prefix, i) ==
  IF i > Len(obj.keys) THEN metrics
  ELSE LET key == obj.keys[i]
           value == obj.at[key]
           fullKey == IF prefix # "" THEN prefix \o "." \o key ELSE key
       IN  flattenObject(obj,
                         IF Appended(value) THEN PushMetric(metrics, fullKey, value)
                         ELSE IF value.k = "object"
                              THEN flattenObject(value, metrics, fullKey, 1)
                              ELSE metrics,
                         prefix, i + 1)

\* iterations.forEach(iteration => this.flattenObject(iteration, metrics, ''))
RECURSIVE FlattenAll(_, _, _)
FlattenAll(iterations, metrics, i) ==
  IF i > Len(iterations) THEN metrics
  ELSE FlattenAll(iterations, flattenObject(iterations[i], metrics, "", 1), i + 1)

\* values.every(v => typeof v === 'number' && !isNaN(v)) of an array
EveryNumeric(values) ==
  \A j \in 1..Len(values) : TypeOf(values[j]) = "number" /\ ~IsNaN(values[j])

\* the entries kept of the flattened metrics
NumericMetrics(metrics) ==
  [keys |-> SelectSeq(metrics.keys, LAMBDA key : EveryNumeric(metrics.at[key])),
   at |-> [key \in {x \in DOMAIN metrics.at : EveryNumeric(metrics.at[x])} |->
             metrics.at[key]]]

\* extractMetrics(iterations): metric path -> values, the paths in the
\* order in which they were first met
extractMetrics(iterations) ==
  NumericMetrics(FlattenAll(iterations, [keys |-> <<>>, at |-> EmptyObject], 1))

\* an iteration with a resource list and no time to first byte
IterResources ==
  JObject(<<"iteration", "timing", "resources">>,
          [iteration |-> Num(2),
           timing |-> JObject(<<"total">>, [total |-> Num(372)]),
           resources |-> JArray(<<Num(1), Num(2)>>)])

\* the iteration records flattened
FlattenedIterations ==
  {IterTypical, IterNullLeaf, Iteration(NaN, Num(10)), Iteration(PosInf, Num(12)),
   IterResources, IterFailed}

InitFlatten ==
  /\ pc = "ready"
  /\ op = "extractMetrics"
  /\ baseline \in UNION {[1..n -> FlattenedIterations] : n \in 0..MaxIterations}
  /\ comparison = None
  /\ result = None
  /\ clock = 0
  /\ history = <<>>

\* const metrics = this.extractMetrics(validIterations)
ExtractMetrics ==
  /\ pc = "ready"
  /\ op = "extractMetrics"
  /\ result' = extractMetrics(baseline)
  /\ pc' = "done"
  /\ UNCHANGED <<op, baseline, comparison, clock, history>>

NextFlatten == ExtractMetrics

SpecFlatten == InitFlatten /\ [][NextFlatten]_vars

\* the paths of the leaves of the iteration records
LeafPaths ==
  {<<"iteration">>, <<"attempt">>, <<"timestamp">>, <<"error">>, <<"failed">>,
   <<"resources">>, <<"phases">>, <<"timing">>,
   <<"phases", "navigation">>, <<"timing", "total">>, <<"timing", "ttfb">>}

\* the finite numbers the iterations hold at a path, in iteration order
FiniteAt(path) ==
  SelectSeq([i \in 1..Len(baseline) |-> WalkPath(baseline[i], path)],
            LAMBDA v : v.k = "fin")

\* C24: after flattening a sequence of iteration records a dot-joined path
\* is in the output iff at least one iteration holds a finite number at that
\* path (NaN, infinite values, arrays and null are never appended), and the
\* sequence of a path holds exactly the values of the iterations that have
\* it, in iteration order, without padding.
C24_FlattenedMetrics ==
  (pc = "done" /\ op = "extractMetrics") =>
    /\ DOMAIN result.at = {JoinPath(path) : path \in {x \in LeafPaths : FiniteAt(x) # <<>>}}
    /\ Range(result.keys) = DOMAIN result.at
    /\ \A path \in LeafPaths :
         FiniteAt(path) # <<>> => result.at[JoinPath(path)] = FiniteAt(path)

(***************************************************************************)
(* Test suite: environments, scenarios, iterations and retries             *)
(* (PerformanceTestSuite.runTestSuite).  One step per loop position; op    *)
(* is the frame of the loops, comparison the objects under construction,   *)
(* result this.results and then the report, history the attempts, sleeps   *)
(* and returns of runIterationWithRetry in the order they happen.          *)
(* ensureOutputDir and the file writes of generateFinalReport succeed.     *)
(***************************************************************************)
\* this.config of the constructor: each default applies when the given
\* value is missing or falsy, and the trailing ...config then puts every
\* given value back
PerformanceTestSuite(config) ==
  config @@ [environments |-> <<"production", "staging">>,
             scenarios |-> <<"cold-start", "warm-start">>,
             iterations |-> 10,
             retryAttempts |-> 3,
             retryDelay |-> 1000]

\* what scenario.run resolves to
ScenarioOutcome ==
  JObject(<<"timing">>,
          [timing |-> JObject(<<"total", "ttfb">>, [total |-> Num(370), ttfb |-> Num(10)])])

\* the messages of the errors an attempt throws
AttemptErrors == {"page.goto: Timeout 30000ms exceeded", "Scenario not found"}

\* { iteration: iterationNumber, attempt, timestamp, ...result }
runSingleIteration(iterationNumber, attempt, now, outcome) ==
  JObject(<<"iteration", "attempt", "timestamp">>
            \o SelectSeq(outcome.keys,
                         LAMBDA key : key \notin {"iteration", "attempt", "timestamp"}),
          outcome.at @@ [iteration |-> Num(iterationNumber),
                         attempt |-> Num(attempt),
                         timestamp |-> JString("2024-01-01T00:00:00.000Z")])

\* the record returned after the loop of runIterationWithRetry
FailedIteration(iterationNumber, lastError) ==
  JObject(<<"iteration", "error", "failed", "timestamp">>,
          [iteration |-> Num(iterationNumber),
           error |-> JString(lastError),
           failed |-> JBoolean("true"),
           timestamp |-> JString("2024-01-01T00:00:00.000Z")])

\* mutant: the suite also sleeps after the last attempt
SleepsAfter_Last(attempt, retryAttempts) == attempt <= retryAttempts

\* if (attempt < this.config.retryAttempts) await this.sleep(...)
SleepsAfter(attempt, retryAttempts) == attempt < retryAttempts

\* the statistics of the valid iterations of a scenario
ScenarioMetricStatistics(metrics) ==
  [key \in DOMAIN metrics.at |-> calculateStatistics(metrics.at[key])]

\* calculateScenarioStatistics(iterations)
calculateScenarioStatistics(iterations) ==
  IF SelectSeq(iterations, LAMBDA iter : ~IterationFailed(iter)) = <<>>
  THEN [error |-> JString("No valid iterations"), totalRuns |-> Num(Len(iterations))]
  ELSE ScenarioStatistics(
         ScenarioMetricStatistics(
           extractMetrics(SelectSeq(iterations, LAMBDA iter : ~IterationFailed(iter)))),
         Len(SelectSeq(iterations, LAMBDA iter : ~IterationFailed(iter))),
         Len(iterations))

\* x || 0 of a numeric property
OrZero(obj, field) ==
  IF Has(obj, field) /\ JTruthy(obj[field]) THEN obj[field] ELSE Num(0)

RECURSIVE FSum(_)
FSum(numbers) == IF numbers = <<>> THEN Num(0) ELSE FAdd(Head(numbers), FSum(Tail(numbers)))

\* generateEnvironmentSummary(envResults); no scenario result of the suite
\* has an error field
generateEnvironmentSummary(envResults) ==
  LET names == Scenarios(envResults)
      statistics == [i \in 1..Len(names) |-> envResults.scenarios[names[i]].statistics]
  IN  [totalScenarios |-> Cardinality(DOMAIN envResults.scenarios),
       successfulScenarios |-> Len(names),
       totalIterations |-> FSum([i \in 1..Len(names) |-> OrZero(statistics[i], "totalRuns")]),
       successfulIterations |->
         FSum([i \in 1..Len(names) |-> OrZero(statistics[i], "validRuns")]),
       averageSuccessRate |->
         IF Len(names) > 0
         THEN FDiv(FSum([i \in 1..Len(names) |-> OrZero(statistics[i], "successRate")]),
                   Num(Len(names)))
         ELSE Num(0)]

\* what InfraAnalyzer.analyze resolves to; it catches its own errors
analyze(envName) ==
  [environment |-> envName, success |-> "true", infrastructure |-> InfraHealthy]

\* mutant: the catch of runEnvironmentTests drops the message
Caught_Dropped(envResults, message) == envResults

\* catch (error) { envResults.error = error.message }
Caught(envResults, message) == [error |-> message] @@ envResults

\* this.results[envName] = envResults
StoreEnvironment(results, envName, envResults) ==
  IF envName \in DOMAIN results.at
  THEN [results EXCEPT !.at[envName] = envResults]
  ELSE [keys |-> Append(results.keys, envName),
        at |-> (envName :> envResults) @@ results.at]

\* the milliseconds slept so far
RECURSIVE Slept(_)
Slept(events) ==
  IF events = <<>> THEN 0
  ELSE (IF Head(events).e = "sleep" THEN Head(events).ms ELSE 0) + Slept(Tail(events))

\* reportData of generateFinalReport
FinalReport(results, duration) ==
  [metadata |-> [duration |-> Num(duration), version |-> "1.0.0"], results |-> results]

\* lastError.message of the value null
NullMessageError == "Cannot read properties of null (reading 'message')"

\* the configurations given to the constructor: runs of one scenario in one
\* environment with up to MaxIterations iterations, with and without the
\* retry options, and runs of two environments
SuiteConfigs ==
  {[environments |-> <<"production">>, scenarios |-> <<"cold-start">>,
    iterations |-> n, retryAttempts |-> r] : n \in 1..2, r \in 0..3}
  \cup {[environments |-> <<"production">>, scenarios |-> <<"cold-start">>,
         iterations |-> MaxIterations, retryAttempts |-> 2]}
  \cup {[environments |-> <<"production">>, scenarios |-> <<"cold-start">>,
         iterations |-> n, retryDelay |-> 500] : n \in 1..2}
  \cup {[environments |-> <<"production", "staging">>, scenarios |-> scs,
         iterations |-> 1, retryAttempts |-> r, retryDelay |-> 500] :
          scs \in {<<"cold-start">>, <<"cold-start", "warm-start">>}, r \in 0..2}

Frame(env, scenario, iteration, attempt, lastError) ==
  [env |-> env, scenario |-> scenario, iteration |-> iteration, attempt |-> attempt,
   lastError |-> lastError]

InitSuite ==
  /\ pc = "suite"
  /\ op = Frame(1, 1, 1, 1, "null")
  /\ baseline \in {PerformanceTestSuite(config) : config \in SuiteConfigs}
  /\ comparison = None
  /\ result = [keys |-> <<>>, at |-> EmptyObject]
  /\ clock = 0
  /\ history = <<>>

EnvName == baseline.environments[op.env]

ScenarioName == baseline.scenarios[op.scenario]

\* runEnvironmentTests up to its scenario loop: the analysis of the
\* infrastructure is stored in the new envResults
RunEnvironmentTests ==
  /\ pc = "suite"
  /\ op.env <= Len(baseline.environments)
  /\ comparison' = [envResults |-> [environment |-> [name |-> EnvName],
                                    scenarios |-> EmptyObject,
                                    infrastructure |-> analyze(EnvName),
                                    summary |-> EmptyObject]]
  /\ op' = Frame(op.env, 1, 1, 1, "null")
  /\ pc' = "environment"
  /\ UNCHANGED <<baseline, result, clock, history>>

\* runScenario up to its iteration loop
RunScenario ==
  /\ pc = "environment"
  /\ op.scenario <= Len(baseline.scenarios)
  /\ comparison' = [envResults |-> comparison.envResults,
                    scenarioResults |-> [scenario |-> ScenarioName,
                                         iterations |-> <<>>,
                                         statistics |-> EmptyObject,
                                         errors |-> <<>>]]
  /\ op' = Frame(op.env, op.scenario, 1, 1, "null")
  /\ pc' = "scenario"
  /\ UNCHANGED <<baseline, result, clock, history>>

\* runIterationWithRetry is called for the next iteration
RunIterationWithRetry ==
  /\ pc = "scenario"
  /\ op.iteration <= baseline.iterations
  /\ op' = Frame(op.env, op.scenario, op.iteration, 1, "null")
  /\ pc' = "retry"
  /\ UNCHANGED <<baseline, comparison, result, clock, history>>

\* scenarioResults.iterations.push(iterationResult), and the loop goes on
PushIteration(record) ==
  /\ comparison' = [comparison EXCEPT !.scenarioResults.iterations = Append(@, record)]
  /\ history' = Append(history, [e |-> "return", env |-> op.env, scenario |-> op.scenario,
                                 record |-> record])
  /\ op' = Frame(op.env, op.scenario, op.iteration + 1, 1, "null")
  /\ pc' = "scenario"

\* an attempt whose runSingleIteration resolves
AttemptSucceeds ==
  /\ pc = "retry"
  /\ op.attempt <= baseline.retryAttempts
  /\ history' = Append(history, [e |-> "attempt", env |-> op.env, scenario |-> op.scenario,
                                 iteration |-> op.iteration, attempt |-> op.attempt,
                                 error |-> "null"])
  /\ pc' = "resolved"
  /\ UNCHANGED <<op, baseline, comparison, result, clock>>

\* return await this.runSingleIteration(...)
ReturnIteration ==
  /\ pc = "resolved"
  /\ PushIteration(runSingleIteration(op.iteration, op.attempt, clock, ScenarioOutcome))
  /\ UNCHANGED <<baseline, result, clock>>

\* an attempt whose runSingleIteration throws: the catch block up to the
\* test for sleeping
AttemptFails ==
  /\ pc = "retry"
  /\ op.attempt <= baseline.retryAttempts
  /\ \E error \in AttemptErrors :
       /\ history' = Append(history, [e |-> "attempt", env |-> op.env,
                                      scenario |-> op.scenario,
                                      iteration |-> op.iteration, attempt |-> op.attempt,
                                      error |-> error])
       /\ IF SleepsAfter(op.attempt, baseline.retryAttempts)
          THEN /\ op' = Frame(op.env, op.scenario, op.iteration, op.attempt, error)
               /\ pc' = "sleep"
          ELSE /\ op' = Frame(op.env, op.scenario, op.iteration, op.attempt + 1, error)
               /\ pc' = "retry"
  /\ UNCHANGED <<baseline, comparison, result, clock>>

\* await this.sleep(this.config.retryDelay * attempt), then attempt++
Sleep ==
  /\ pc = "sleep"
  /\ history' = Append(history, [e |-> "sleep", ms |-> baseline.retryDelay * op.attempt])
  /\ op' = Frame(op.env, op.scenario, op.iteration, op.attempt + 1, op.lastError)
  /\ pc' = "retry"
  /\ UNCHANGED <<baseline, comparison, result, clock>>

\* the loop is over and lastError holds an error: the failed record
AllAttemptsFailed ==
  /\ pc = "retry"
  /\ op.attempt > baseline.retryAttempts
  /\ op.lastError # "null"
  /\ PushIteration(FailedIteration(op.iteration, op.lastError))
  /\ UNCHANGED <<baseline, result, clock>>

\* the loop is over and lastError is still null: lastError.message throws,
\* runIterationWithRetry and runScenario reject, and the catch of
\* runEnvironmentTests stores the message; runTestSuite stores the
\* envResults returned and goes on with the next environment
EnvironmentTestsFail ==
  /\ pc = "retry"
  /\ op.attempt > baseline.retryAttempts
  /\ op.lastError = "null"
  /\ history' = Append(history, [e |-> "throw", env |-> op.env, scenario |-> op.scenario,
                                 iteration |-> op.iteration])
  /\ result' = StoreEnvironment(result, EnvName, Caught(comparison.envResults, NullMessageError))
  /\ comparison' = None
  /\ op' = Frame(op.env + 1, 1, 1, 1, "null")
  /\ pc' = "suite"
  /\ UNCHANGED <<baseline, clock>>

\* the iterations of the scenario are done: its statistics are computed
\* and runEnvironmentTests stores the scenarioResults returned
FinishScenario ==
  /\ pc = "scenario"
  /\ op.iteration > baseline.iterations
  /\ comparison' =
       [envResults |->
          [comparison.envResults EXCEPT
             !.scenarios =
               (ScenarioName :>
                  [comparison.scenarioResults EXCEPT
                     !.statistics =
                       calculateScenarioStatistics(comparison.scenarioResults.iterations)])
               @@ @]]
  /\ op' = Frame(op.env, op.scenario + 1, 1, 1, "null")
  /\ pc' = "environment"
  /\ UNCHANGED <<baseline, result, clock, history>>

\* the scenarios of the environment are done: the summary is generated and
\* runTestSuite stores the envResults returned
FinishEnvironment ==
  /\ pc = "environment"
  /\ op.scenario > Len(baseline.scenarios)
  /\ result' = StoreEnvironment(result, EnvName,
                                [comparison.envResults EXCEPT
                                   !.summary = generateEnvironmentSummary(comparison.envResults)])
  /\ comparison' = None
  /\ op' = Frame(op.env + 1, 1, 1, 1, "null")
  /\ pc' = "suite"
  /\ UNCHANGED <<baseline, clock, history>>

\* const finalResults = await this.generateFinalReport()
GenerateFinalReport ==
  /\ pc = "suite"
  /\ op.env > Len(baseline.environments)
  /\ comparison' = FinalReport(result, Slept(history))
  /\ result' = None
  /\ pc' = "reported"
  /\ UNCHANGED <<op, baseline, clock, history>>

\* const validationResult = await validation.validateTestRun(results)
ValidateSuiteRun ==
  /\ pc = "reported"
  /\ result' = validateTestRun(clock, comparison)
  /\ pc' = "validated"
  /\ UNCHANGED <<op, baseline, comparison, clock, history>>

NextSuite ==
  \/ RunEnvironmentTests
  \/ RunScenario
  \/ RunIterationWithRetry
  \/ AttemptSucceeds
  \/ ReturnIteration
  \/ AttemptFails
  \/ Sleep
  \/ AllAttemptsFailed
  \/ EnvironmentTestsFail
  \/ FinishScenario
  \/ FinishEnvironment
  \/ GenerateFinalReport
  \/ ValidateSuiteRun

\* the steps that end with an awaited call or take up its result
Awaited ==
  \/ RunEnvironmentTests
  \/ RunScenario
  \/ RunIterationWithRetry
  \/ AttemptSucceeds
  \/ ReturnIteration
  \/ AttemptFails
  \/ Sleep
  \/ AllAttemptsFailed
  \/ EnvironmentTestsFail
  \/ GenerateFinalReport

\* the steps that compute the statistics, the summary and the validation
\* report
Computed == FinishScenario \/ FinishEnvironment \/ ValidateSuiteRun

\* ENABLED <<Computed>>_vars
ComputedEnabled ==
  \/ pc = "scenario" /\ op.iteration > baseline.iterations
  \/ pc = "environment" /\ op.scenario > Len(baseline.scenarios)
  \/ pc = "reported"

\* runs of the suite followed by the validation of their report.  Every
\* awaited call settles and every computation ends: weak fairness of
\* Awaited and of Computed, the latter written out with ComputedEnabled.
SpecSuite ==
  /\ InitSuite
  /\ [][NextSuite]_vars
  /\ WF_vars(Awaited)
  /\ ([]<>~ComputedEnabled \/ []<><<Computed>>_vars)

\* the k-th entry of the log is an attempt, a failed attempt
IsAttempt(k) == history[k].e = "attempt"

AttemptFailed(k) == IsAttempt(k) /\ history[k].error # "null"

\* the entry of the log for the return of a record out of runIterationWithRetry
Returned(k, record) ==
  [e |-> "return", env |-> history[k].env, scenario |-> history[k].scenario,
   record |-> record]

\* what precedes an attempt: nothing of its iteration before the first
\* one, the failed attempt before it and the sleep in between otherwise
AttemptPreceded(k) ==
  IF history[k].attempt = 1
  THEN k = 1 \/ history[k - 1].e = "return"
  ELSE /\ k >= 3
       /\ history[k - 1] =
            [e |-> "sleep", ms |-> baseline.retryDelay * (history[k].attempt - 1)]
       /\ AttemptFailed(k - 2)
       /\ history[k - 2].env = history[k].env
       /\ history[k - 2].scenario = history[k].scenario
       /\ history[k - 2].iteration = history[k].iteration
       /\ history[k - 2].attempt = history[k].attempt - 1

\* what follows an attempt: the return of its result when it succeeded, a
\* sleep when it failed and was not the last, the failed record with its
\* error when it was the last
AttemptFollowed(k) ==
  IF ~AttemptFailed(k)
  THEN history[k + 1] =
         Returned(k, runSingleIteration(history[k].iteration, history[k].attempt, clock,
                                        ScenarioOutcome))
  ELSE IF history[k].attempt < baseline.retryAttempts
       THEN history[k + 1] = [e |-> "sleep", ms |-> baseline.retryDelay * history[k].attempt]
       ELSE history[k + 1] =
              Returned(k, FailedIteration(history[k].iteration, history[k].error))

RetryOrder ==
  \A k \in 1..Len(history) :
    /\ IsAttempt(k) =>
         /\ history[k].attempt \in 1..baseline.retryAttempts
         /\ AttemptPreceded(k)
         /\ k < Len(history) => AttemptFollowed(k)
    /\ history[k].e \in {"sleep", "return"} => (k > 1 /\ IsAttempt(k - 1))
    /\ history[k].e # "throw"

\* the results of the environments: this.results, then the report's
SuiteResults == IF pc \in {"reported", "validated"} THEN comparison.results ELSE result

\* the scenario results runScenario has returned
FinishedScenarios ==
  UNION {Range([i \in 1..Len(Scenarios(SuiteResults.at[envName])) |->
                  SuiteResults.at[envName].scenarios[Scenarios(SuiteResults.at[envName])[i]]]) :
           envName \in DOMAIN SuiteResults.at}
  \cup (IF pc \in {"environment", "scenario", "retry", "resolved", "sleep"}
        THEN {comparison.envResults.scenarios[n] : n \in DOMAIN comparison.envResults.scenarios}
        ELSE {})

RecordsInOrder(iterations) ==
  \A j \in 1..Len(iterations) : iterations[j].at.iteration = Num(j)

ScenarioRecords ==
  /\ \A scenario \in FinishedScenarios :
       /\ Len(scenario.iterations) = baseline.iterations
       /\ RecordsInOrder(scenario.iterations)
  /\ pc \in {"scenario", "retry", "resolved", "sleep"} =>
       /\ Len(comparison.scenarioResults.iterations) = op.iteration - 1
       /\ RecordsInOrder(comparison.scenarioResults.iterations)

C29_RetryNeverThrows ==
  \A k \in 1..Len(history) :
    /\ history[k].e # "throw"
    /\ history[k].e = "return" => (k > 1 /\ IsAttempt(k - 1))

\* an entry of the log says that runScenario threw in the environment
Failed(envIndex) ==
  \E k \in 1..Len(history) : history[k].e = "throw" /\ history[k].env = envIndex

\* the report has an environment_error issue for the environment
EnvironmentErrorReported(envName) ==
  \E i \in 1..Len(result.issues) :
    /\ result.issues[i].type = "environment_error"
    /\ result.issues[i].severity = "error"
    /\ result.issues[i].environment = envName

FailuresStored ==
  /\ \A i \in 1..Len(baseline.environments) :
       Failed(i) =>
         /\ baseline.environments[i] \in DOMAIN SuiteResults.at
         /\ Str(SuiteResults.at[baseline.environments[i]], "error") = NullMessageError
  /\ pc \in {"reported", "validated"} => comparison.results.keys = baseline.environments
  /\ pc = "validated" =>
       \A i \in 1..Len(baseline.environments) :
         Failed(i) => (EnvironmentErrorReported(baseline.environments[i])
                       /\ result.passed = FALSE)

AllFailedScenarios ==
  {slot \in Range(ScenarioSlots(baseline, "iterations")) :
     /\ slot.value.iterations # <<>>
     /\ \A i \in 1..Len(slot.value.iterations) : IterationFailed(slot.value.iterations[i])
     /\ Has(slot.value, "statistics")
     /\ slot.value.statistics = calculateScenarioStatistics(slot.value.iterations)}

ErrorIssueListed ==
  \E i \in 1..Len(result.issues) : result.issues[i].severity = "error"

\* C28: in every report validateTestRun returns without an error marker,
\* passed is false iff the top-level issues list holds at least one entry
\* of severity 'error'.
C28_FailedIffErrorIssue ==
  (pc = "done" /\ op = "validateTestRun" /\ ~Has(result, "error")) =>
    (result.passed = FALSE <=> ErrorIssueListed)

\* C28 witness: a passing report whose issues list is not empty (a success
\* rate between 80 and 95 is listed with severity 'warning')
C28_Witness ==
  /\ pc = "done"
  /\ op = "validateTestRun"
  /\ ~Has(result, "error")
  /\ result.passed
  /\ result.issues # <<>>

(***************************************************************************)
(* The gate and the comparison engine on the same statistics               *)
(***************************************************************************)
\* page load without spread, time to first byte 3% above StatA with a
\* tenth of its spread
MetricsTight ==
  [m \in {"timing.total", "timing.ttfb"} |->
     IF m = "timing.total" THEN StatZero ELSE StatsRecord(Fin(103, 10), Fin(1, 10), 10)]

\* the same with time to first byte as in StatA
MetricsTighter ==
  [m \in {"timing.total", "timing.ttfb"} |->
     IF m = "timing.total" THEN StatZero ELSE StatsRecord(Num(10), Fin(1, 10), 10)]

\* the statistics of a scenario on either side: metric statistics with the
\* run counters, an entry that is null, and the statistics of a scenario
\* without a valid iteration
AgreeStatistics ==
  {ScenarioStatistics(m, 10, 10) :
     m \in {MetricsReliable, MetricsUnstable, MetricsMixed, MetricsFast, MetricsTight,
            MetricsTighter, MetricsNullEntry}}
  \cup {StatisticsNoValidIterations}

\* the results of one environment on either side
AgreeEnvironments ==
  UNION {{[environment |-> [name |-> "production"],
           scenarios |-> [n \in names |-> [statistics |-> statistics[n]]]] :
            statistics \in [names -> AgreeStatistics]} :
         names \in {{"cold-start"}, {"cold-start", "warm-start"}}}

\* the run of one environment
RunOf(envResult) ==
  [results |-> [keys |-> <<"production">>, at |-> [e \in {"production"} |-> envResult]]]

\* the statistics part of the baseline createBaseline makes of a run
BaselineOf(envResult) ==
  [name |-> "baseline", statistics |-> extractBaselineStatistics(RunOf(envResult))]

InitAgree ==
  /\ pc = "ready"
  /\ op = "agree"
  /\ baseline \in AgreeEnvironments
  /\ comparison \in AgreeEnvironments
  /\ result = EmptyObject
  /\ clock = 0
  /\ history = <<>>

\* validation.validateAgainstBaseline(results, baseline) on the current run
\* and the baseline made of the baseline run
GateOnStatistics ==
  /\ op = "agree"
  /\ ~Has(result, "gate")
  /\ result' = [gate |-> validateAgainstBaseline(RunOf(comparison), BaselineOf(baseline))]
               @@ result
  /\ pc' = IF Has(result, "compare") THEN "done" ELSE "gated"
  /\ UNCHANGED <<op, baseline, comparison, clock, history>>

\* engine.compareEnvironments(baseline, comparison) on the two environment
\* results
CompareOnStatistics ==
  /\ op = "agree"
  /\ ~Has(result, "compare")
  /\ result' = [compare |-> compareEnvironments(baseline, comparison)] @@ result
  /\ pc' = IF Has(result, "gate") THEN "done" ELSE "compared"
  /\ UNCHANGED <<op, baseline, comparison, clock, history>>

NextAgree == GateOnStatistics \/ CompareOnStatistics

\* the gate and the comparison engine called on the same pair of
\* statistics, in either order
SpecAgree == InitAgree /\ [][NextAgree]_vars

\* both calls returned a report
BothReported ==
  /\ pc = "done"
  /\ op = "agree"
  /\ ~Has(result.gate, "threw")
  /\ ~Has(result.compare, "error")

\* the (scenario, metric) pairs of a list of the gate, of the scenario
\* entries of a list of the summary
GatePairs(list) == {<<x.scenario, x.metric>> : x \in Range(list)}

SummaryPairs(list) == {<<x.scenario, x.metric>> : x \in {y \in Range(list) : y.scenario # ""}}

\* C26: for the same baseline statistics and current statistics of one
\* environment, when both calls return a report, the (scenario, metric)
\* pairs validateAgainstBaseline puts in regressions are the scenario
\* metrics the summary of compareEnvironments lists as regressions, and
\* likewise for improvements.
C26_GateAgreesWithComparison ==
  BothReported =>
    /\ GatePairs(result.gate.regressions) = SummaryPairs(result.compare.summary.regressions)
    /\ GatePairs(result.gate.improvements) = SummaryPairs(result.compare.summary.improvements)

\* C26 witness: both list a regression and an improvement, and a
\* significant change of at most 5% that neither lists
C26_Witness ==
  /\ BothReported
  /\ result.gate.regressions # <<>>
  /\ result.gate.improvements # <<>>
  /\ \E x \in Range(result.gate.changes) : x.changePercent # Num(0)

====
